---- MODULE Spec2Model ----
(***************************************************************************)
(* Probability densities on evenly spaced grids of observables             *)
(* (lib/dens_util.py: Kernel, Grid) and the per-star evaluation of a       *)
(* density under a measurement-error kernel (calc_cluster.py).             *)
(*                                                                         *)
(* Conventions                                                             *)
(*  - Python floats are exact rationals here.  An array of floats is a     *)
(*    function of integer numerators with one common denominator           *)
(*    ([shape, num, den]); den = 0 stands for the non-finite values        *)
(*    (nan, inf) numpy produces on a division by zero.                     *)
(*  - Python indices are 0-based and TLA+ sequences 1-based: position p    *)
(*    of a sequence is Python index p - 1.  Axis arguments are Python      *)
(*    axis numbers (0 .. dim-1, or negative from the end).                 *)
(*  - A raised Python exception is the value of the field exc of an        *)
(*    operation's result ("" when the operation returns normally).         *)
(***************************************************************************)
EXTENDS Integers, Sequences, FiniteSets, TLC

VARIABLES
    dens,        \* Grid.dens: [shape, num, den]
    obs,         \* Grid.obs: per axis, the coordinates of the grid points
    step,        \* Grid.step: per axis, the discrete step
    ROI,         \* Grid.ROI: per axis, <<low, high>>
    norm,        \* Grid.norm: per axis, TRUE when normalized over the ROI
    correction,  \* Grid.correction: per axis, None or the fitted dependence
    dim,         \* Grid.dim
    last,        \* the last Grid operation: its name, arguments, result and pre-state
    nconv,       \* number of convolutions applied so far (bounds the run)
    kargs,       \* arguments of a Kernel construction
    kernel,      \* outcome of that construction
    star,        \* one star of the catalogue and the density it is evaluated on
    sval,        \* outcome of the star's evaluation
    heap,        \* the objects Grid fields refer to (arrays and lists), by reference
    orig,        \* a Grid object: the reference held in each field, and dim
    cpy,         \* the Grid object returned by orig.copy()
    fb,          \* per star, the cluster model density fw and the background back
    qmax,        \* outcome of the maximization of the likelihood in q
    wi,          \* index i of the loop over w0 (-1 when no loop runs)
    wj,          \* index j of the loop over w1
    ll,          \* the cells of ll assigned so far (the others are NaN)
    corr,        \* a fitted correction, an axis and a star's sigma
    cdp,         \* the de-normalization dp obtained for them
    coarsen      \* a call of the model grid's coarsen: its locals and the grid's fields

gridvars == <<dens, obs, step, ROI, norm, correction, dim, last, nconv>>
kernvars == <<kargs, kernel>>
starvars == <<star, sval>>
heapvars == <<heap, orig, cpy>>
likvars == <<fb, qmax>>
llvars == <<wi, wj, ll>>
corrvars == <<corr, cdp>>
mgvars == <<coarsen>>
vars == <<dens, obs, step, ROI, norm, correction, dim, last, nconv,
          kargs, kernel, star, sval, heap, orig, cpy, fb, qmax, wi, wj, ll,
          corr, cdp, coarsen>>

None == [none |-> TRUE]

----------------------------------------------------------------------------
(* Bounds of the model *)

\* sigma is drawn from the multiples of 1/SigDen in MinSig/SigDen .. MaxSig/SigDen
SigDen == 2
MaxSig == 5
\* largest nsig and largest downsample factor drawn
MaxNsig == 3
MaxDs == 3
\* grids: points per axis, margins of the ROI (in points), step
MaxLen == 5
MaxMargin == 1
MaxStep == 2
\* the regions integrate is called with lie in 0 .. MaxRegion
MaxRegion == 2
\* the number of convolutions in a run
MaxConv == 1
\* stars lie up to MaxOut pixels beyond either end of the first axis
MaxOut == 2

----------------------------------------------------------------------------
(* Arithmetic helpers *)

Abs(a) == IF a < 0 THEN -a ELSE a

\* np.floor and np.ceil of the rational a/b, b > 0
FloorDiv(a, b) == a \div b
CeilDiv(a, b) == -((-a) \div b)

RECURSIVE SumSeq(_)
SumSeq(s) == IF s = <<>> THEN 0 ELSE Head(s) + SumSeq(Tail(s))

\* the one element of a singleton: Only({F(x) : x \in {e}}) is F(e) with e
\* evaluated once
Only(S) == CHOOSE x \in S : TRUE

RECURSIVE GCD(_, _)
GCD(a, b) == IF b = 0 THEN a ELSE GCD(b, a % b)

----------------------------------------------------------------------------
(* np.exp in fixed point *)

\* weights are multiples of 1/ExpScale; the series is summed in units of 1/ExpUnit
ExpScale == 64
ExpUnit == 256
ExpTerms == 12
\* exp(-t) is below half a unit of 1/ExpScale, and rounds to 0, from t = ExpCut on
ExpCut == 5

\* sum of the terms k .. ExpTerms of the series of exp(p/q), given term k-1
RECURSIVE ExpSeries(_, _, _, _)
ExpSeries(p, q, k, term) ==
    IF k > ExpTerms THEN 0
    ELSE LET t == (term * p) \div (q * k)
         IN  t + ExpSeries(p, q, k + 1, t)

\* ExpScale * exp(-p/q) for p >= 0, q > 0
ExpNeg(p, q) ==
    IF p = 0 THEN ExpScale
    ELSE IF p >= ExpCut * q THEN 0
    ELSE LET g == GCD(p, q)
             e == ExpUnit + ExpSeries(p \div g, q \div g, 1, ExpUnit)
         IN  (ExpScale * ExpUnit) \div e

----------------------------------------------------------------------------
(* Kernel: lib/dens_util.py, class Kernel *)

\* a variant that does not round up to a multiple of ds
KernelHalfWidthNoDs(sn, sd, nsig, ds) == CeilDiv(nsig * sn, sd)
\* number of steps in one half of the kernel, for sigma = sn/sd
KernelHalfWidth(sn, sd, nsig, ds) == CeilDiv(nsig * sn, sd * ds) * ds

\* a variant that is not centred: np.linspace(0, 2n, 2n+1)
AbscissaeFromZero(n) == [i \in 1..(2 * n + 1) |-> i - 1]
\* x = np.linspace(-n, n, 2n+1): the abscissae, for n >= 0
Abscissae(n) == [i \in 1..(2 * n + 1) |-> i - 1 - n]

\* y = np.exp(-0.5 * (x/sigma)**2) at one abscissa, sigma = sn/sd # 0
Gauss(x, sn, sd) == ExpNeg(x * x * sd * sd, 2 * sn * sn)

\* self.y = y / np.sum(y): the weights are y[i] / ysum
KernelSum(y) == SumSeq(y)

\* Kernel.__init__(sigma, nsig, ds), sigma = sn/sd with sd > 0.
\*   n < 0 : np.linspace is asked for 2n+1 < 0 samples and raises ValueError;
\*   sigma = 0 : n = 0, x = [0], x/sigma = 0/0 is nan, so the one weight is nan;
\*   otherwise the weights are the Gaussian's values over their sum.
Kernel(sn, sd, nsig, ds) ==
    LET n == KernelHalfWidth(sn, sd, nsig, ds)
    IN  IF n < 0
        THEN [exc |-> "ValueError", n |-> n, y |-> <<>>, ysum |-> 0, nan |-> FALSE]
        ELSE IF sn = 0
        THEN [exc |-> "", n |-> n, y |-> <<0>>, ysum |-> 0, nan |-> TRUE]
        ELSE LET x == Abscissae(n)
                 y == [i \in 1..Len(x) |-> Gauss(x[i], sn, sd)]
             IN  [exc |-> "", n |-> n, y |-> y, ysum |-> KernelSum(y), nan |-> FALSE]

----------------------------------------------------------------------------
(* Sequences and Python indexing *)

RemoveAt(s, p) == SubSeq(s, 1, p - 1) \o SubSeq(s, p + 1, Len(s))
InsertAt(s, p, v) == SubSeq(s, 1, p - 1) \o <<v>> \o SubSeq(s, p, Len(s))

RECURSIVE SeqMax(_)
SeqMax(s) ==
    IF s = <<>> THEN 0
    ELSE LET m == SeqMax(Tail(s)) IN IF Head(s) > m THEN Head(s) ELSE m

RECURSIVE SeqProd(_)
SeqProd(s) == IF s = <<>> THEN 1 ELSE Head(s) * SeqProd(Tail(s))

\* position (1-based) of Python axis number `axis` among d axes; outside 1..d
\* when Python would raise IndexError
AxisPos(axis, d) == IF axis < 0 THEN d + axis + 1 ELSE axis + 1
ValidAxis(axis, d) == AxisPos(axis, d) \in 1..d

\* a slice bound of Python on a sequence of length L: negative bounds count
\* from the end, and the result is clipped to 0 .. L
SliceBound(i, L) ==
    LET j == IF i < 0 THEN i + L ELSE i
    IN  IF j < 0 THEN 0 ELSE IF j > L THEN L ELSE j

\* the Python indices (0-based, increasing) selected by [start:stop]
SliceIdx(start, stop, L) ==
    LET lo == SliceBound(start, L)
        hi == SliceBound(stop, L)
    IN  [p \in 1..(IF hi > lo THEN hi - lo ELSE 0) |-> lo + p - 1]

\* the elements of a sequence selected by [::ds]
Every(s, ds) == [p \in 1..CeilDiv(Len(s), ds) |-> s[(p - 1) * ds + 1]]

\* the elements of a sequence selected by [:m], m >= 0
Upto(s, m) == SubSeq(s, 1, IF m < Len(s) THEN m ELSE Len(s))

----------------------------------------------------------------------------
(* numpy arrays of rationals: [shape, num, den] *)

\* the index tuples (1-based) of an array of the given shape
Indices(shape) ==
    {t \in [1..Len(shape) -> 1..SeqMax(shape)] :
        \A k \in 1..Len(shape) : t[k] <= shape[k]}

Arr(shape, num, den) == [shape |-> shape, num |-> num, den |-> den]

\* the same values over the smallest common denominator
RECURSIVE GCDSet(_, _)
GCDSet(S, acc) ==
    IF S = {} \/ acc = 1 THEN acc
    ELSE LET x == CHOOSE x \in S : TRUE
         IN  GCDSet(S \ {x}, GCD(acc, Abs(x)))
Reduced(a) ==
    LET c == GCDSet({a.num[t] : t \in Indices(a.shape)}, Abs(a.den))
    IN  IF c <= 1 THEN a
        ELSE Arr(a.shape, [t \in Indices(a.shape) |-> a.num[t] \div c], a.den \div c)

\* np.sum(w * dens, axis) with the focal axis at position p: w is a sequence
\* of integer weights
ArrSumAxis(a, w, p) ==
    LET shape == RemoveAt(a.shape, p)
    IN  Arr(shape,
            [t \in Indices(shape) |->
                SumSeq([i \in 1..a.shape[p] |-> w[i] * a.num[InsertAt(t, p, i)]])],
            a.den)

\* the array restricted, along the axis at position p, to the Python indices idx
ArrTake(a, p, idx) ==
    LET shape == [a.shape EXCEPT ![p] = Len(idx)]
    IN  Arr(shape,
            [t \in Indices(shape) |-> a.num[[t EXCEPT ![p] = idx[t[p]] + 1]]],
            a.den)

\* scipy.ndimage.convolve1d(dens, y, axis, mode='constant'): the convolution
\* with the weights y[j]/ysum, j = 0 .. 2n, centred, zeros beyond the ends
ArrConvolve(a, p, y, ysum, n) ==
    LET L == a.shape[p]
        At(t, i) == IF i \in 1..L THEN a.num[[t EXCEPT ![p] = i]] ELSE 0
    IN  Reduced(Arr(a.shape,
            [t \in Indices(a.shape) |->
                SumSeq([j \in 1..Len(y) |-> y[j] * At(t, t[p] + n + 1 - j)])],
            a.den * ysum))

\* the index tuple (1-based) of the element number q (from 0, in C order) of
\* an array of the given shape
RECURSIVE Unravel(_, _)
Unravel(q, shape) ==
    IF shape = <<>> THEN <<>>
    ELSE LET rest == SeqProd(Tail(shape))
         IN  <<(q \div rest) + 1>> \o Unravel(q % rest, Tail(shape))

\* the value of a 0-dimensional array, as <<numerator, denominator>>
Scalar(a) == <<a.num[<<>>], a.den>>

----------------------------------------------------------------------------
(* Grid: lib/dens_util.py, class Grid *)

MkGrid(d, o, s, r, nm, c, dm) ==
    [dens |-> d, obs |-> o, step |-> s, ROI |-> r, norm |-> nm,
     correction |-> c, dim |-> dm]

Ok(g) == [exc |-> "", g |-> g]
Raise(e, g) == [exc |-> e, g |-> g]

\* Grid.__init__: the step of an axis is obs[i][1] - obs[i][0], which raises
\* IndexError on an axis of fewer than two points
GridInit(d, o, r, nm) ==
    IF \E i \in 1..Len(o) : Len(o[i]) < 2
    THEN Raise("IndexError", None)
    ELSE Ok(MkGrid(d, o, [i \in 1..Len(o) |-> o[i][2] - o[i][1]], r, nm,
                   [i \in 1..Len(o) |-> None], Len(o)))

\* Grid.copy
GridCopy(g) ==
    LET c == GridInit(g.dens, g.obs, g.ROI, g.norm)
    IN  IF c.exc # "" THEN c
        ELSE Ok([c.g EXCEPT !.correction = g.correction])

\* a variant of remove_axis that forgets norm.pop(axis)
RemoveAxisKeepNorm(g, axis) ==
    LET p == AxisPos(axis, g.dim)
    IN  MkGrid(g.dens, RemoveAt(g.obs, p), RemoveAt(g.step, p),
               RemoveAt(g.ROI, p), g.norm, RemoveAt(g.correction, p),
               g.dim - 1)
\* Grid.remove_axis
RemoveAxis(g, axis) ==
    LET p == AxisPos(axis, g.dim)
    IN  MkGrid(g.dens, RemoveAt(g.obs, p), RemoveAt(g.step, p),
               RemoveAt(g.ROI, p), RemoveAt(g.norm, p),
               RemoveAt(g.correction, p), g.dim - 1)

\* bounds of a region: a number, -np.inf or np.inf
Fin(v) == [k |-> "fin", v |-> v]
NegInf == [k |-> "-inf", v |-> 0]
PosInf == [k |-> "inf", v |-> 0]
GeBound(o, b) == b.k = "-inf" \/ (b.k = "fin" /\ o >= b.v)
LeBound(o, b) == b.k = "inf" \/ (b.k = "fin" /\ o <= b.v)

\* the ROI of one axis, <<low, high>>, as a region
RoiRegion(r) == <<Fin(r[1]), Fin(r[2])>>

\* a variant with strict comparisons: (obs > region[0]) & (obs < region[1])
InRegionOpen(o, region) ==
    /\ GeBound(o, region[1]) /\ LeBound(o, region[2])
    /\ (region[1].k = "fin" => o # region[1].v)
    /\ (region[2].k = "fin" => o # region[2].v)
\* (obs >= region[0]) & (obs <= region[1])
InRegion(o, region) == GeBound(o, region[1]) /\ LeBound(o, region[2])

\* Grid.w: weight 1 at the points of the axis inside the region, 0 elsewhere
W(g, region, axis) ==
    LET o == g.obs[AxisPos(axis, g.dim)]
    IN  [i \in 1..Len(o) |-> IF InRegion(o[i], region) THEN 1 ELSE 0]

\* Grid.integrate
Integrate(g, region, axis) ==
    LET w == W(g, region, axis)
        d == ArrSumAxis(g.dens, w, AxisPos(axis, g.dim))
    IN  RemoveAxis([g EXCEPT !.dens = d], axis)

\* Grid.integrate_lower, integrate_upper, marginalize
IntegrateLower(g, axis) ==
    Integrate(g, <<NegInf, Fin(g.ROI[AxisPos(axis, g.dim)][1])>>, axis)
IntegrateUpper(g, axis) ==
    Integrate(g, <<Fin(g.ROI[AxisPos(axis, g.dim)][2]), PosInf>>, axis)
\* a variant of marginalize that sums nothing and keeps the axis
MarginalizeKeepAxis(g, axis) == g
Marginalize(g, axis) == Integrate(g, <<NegInf, PosInf>>, axis)

\* Grid.integrate_ron
RECURSIVE IntegrateRon(_)
IntegrateRon(g) ==
    IF g.dim > 0
    THEN LET region == IF g.norm[Len(g.norm)] THEN RoiRegion(g.ROI[Len(g.ROI)])
                       ELSE <<NegInf, PosInf>>
         IN  IntegrateRon(Integrate(g, region, -1))
    ELSE g

\* the number of passes of the loop of integrate_ron, each one self.integrate
RECURSIVE IntegrateRonSteps(_)
IntegrateRonSteps(g) ==
    IF g.dim > 0
    THEN LET region == IF g.norm[Len(g.norm)] THEN RoiRegion(g.ROI[Len(g.ROI)])
                       ELSE <<NegInf, PosInf>>
         IN  1 + IntegrateRonSteps(Integrate(g, region, -1))
    ELSE 0

\* a variant that leaves dens as it is
DivideUnscaled(a, m) == Arr(a.shape, a.num, a.den)
\* self.dens /= norm, for norm the 0-dimensional array d.dens: the quotient of
\* num/den by m.num/m.den, with the common factor of the two denominators
\* cancelled; it is not finite (den = 0) when the divisor is 0
Divide(a, m) ==
    IF a.den = 0 \/ m.den = 0 \/ m.num[<<>>] = 0
    THEN Arr(a.shape, a.num, 0)
    ELSE LET c == GCD(a.den, m.den)
         IN  Reduced(Arr(a.shape,
                 [t \in Indices(a.shape) |-> a.num[t] * (m.den \div c)],
                 (a.den \div c) * m.num[<<>>]))

\* Grid.normalize
Normalize(g) ==
    LET c == GridCopy(g)
    IN  IF c.exc # "" THEN Raise(c.exc, g)
        ELSE LET d == IntegrateRon(c.g)
             IN  Ok([g EXCEPT !.dens = Divide(g.dens, d.dens)])

\* Grid.check_roi: index.min() and index.max() raise ValueError when no point
\* of the axis lies in the ROI
RoiIndex(g, axis) ==
    LET p == AxisPos(axis, g.dim)
    IN  {i \in 0..(Len(g.obs[p]) - 1) : InRegion(g.obs[p][i + 1], RoiRegion(g.ROI[p]))}
SetMin(S) == CHOOSE m \in S : \A x \in S : m <= x
SetMax(S) == CHOOSE m \in S : \A x \in S : m >= x
\* a variant with len(obs) - index.max() >= kernel.n
CheckRoiInclusive(g, axis, n) ==
    LET index == RoiIndex(g, axis)
    IN  IF index = {} THEN [exc |-> "ValueError", val |-> FALSE]
        ELSE [exc |-> "",
              val |-> (SetMin(index) >= n)
                      /\ (Len(g.obs[AxisPos(axis, g.dim)]) - SetMax(index) >= n)]
\* (index.min() >= kernel.n) & (len(obs) - index.max() > kernel.n)
CheckRoi(g, axis, n) ==
    LET index == RoiIndex(g, axis)
    IN  IF index = {} THEN [exc |-> "ValueError", val |-> FALSE]
        ELSE [exc |-> "",
              val |-> (SetMin(index) >= n)
                      /\ (Len(g.obs[AxisPos(axis, g.dim)]) - SetMax(index) > n)]

\* the coordinates of an axis at the Python indices idx
TakeObs(o, idx) == [q \in 1..Len(idx) |-> o[idx[q] + 1]]

\* a variant of convolve that forgets self.step[axis] *= ds
ConvolveKeepStep(g, axis, k, ds) ==
    LET p == AxisPos(axis, g.dim)
        c == ArrConvolve(g.dens, p, k.y, k.ysum, k.n)
        di == Every(SliceIdx(k.n, 0 - k.n, g.dens.shape[p]), ds)
        oi == Every(SliceIdx(k.n, 0 - k.n, Len(g.obs[p])), ds)
    IN  Ok([g EXCEPT !.dens = ArrTake(c, p, di),
                     !.obs[p] = TakeObs(g.obs[p], oi)])
\* Grid.convolve: convolve, drop kernel.n points at each end ([n:-n]), keep
\* every ds-th of the rest ([::ds]), multiply the step by ds
Convolve(g, axis, k, ds) ==
    LET p == AxisPos(axis, g.dim)
        c == ArrConvolve(g.dens, p, k.y, k.ysum, k.n)
        di == Every(SliceIdx(k.n, 0 - k.n, g.dens.shape[p]), ds)
        oi == Every(SliceIdx(k.n, 0 - k.n, Len(g.obs[p])), ds)
    IN  Ok([g EXCEPT !.dens = ArrTake(c, p, di),
                     !.obs[p] = TakeObs(g.obs[p], oi),
                     !.step[p] = g.step[p] * ds])

\* Grid.convolve_numpy: np.convolve(..., mode='same') returns max(L, 2n+1)
\* values, so the assignment to a row of dens1 raises ValueError when the
\* kernel is longer than the axis; otherwise as Grid.convolve
ConvolveNumpy(g, axis, k, ds) ==
    LET p == AxisPos(axis, g.dim)
    IN  IF 2 * k.n + 1 > g.dens.shape[p] /\ Indices(RemoveAt(g.dens.shape, p)) # {}
        THEN Raise("ValueError", g)
        ELSE Convolve(g, axis, k, ds)

\* Grid.convolve_downsample: the result is accumulated at the downsampled
\* locations only.  res[..., j_lim:-j_lim] += y[j] * dens[..., j::ds][..., :n_max]
\* raises ValueError unless the right-hand side has the length of the slice of
\* res, or length 1 (numpy then broadcasts it).
ConvolveDownsample(g, axis, k, ds) ==
    LET p == AxisPos(axis, g.dim)
        L == g.dens.shape[p]
        Ld == L \div ds
        j_lim == k.n \div ds
        n_max == Ld - 2 * j_lim
        target == SliceIdx(j_lim, 0 - j_lim, Ld)
        src(j) == LET a == Every(SliceIdx(j, L, L), ds)
                  IN  TakeObs(a, SliceIdx(0, n_max, Len(a)))
        Fits(j) == Len(src(j)) = Len(target) \/ Len(src(j)) = 1
        shape == [g.dens.shape EXCEPT ![p] = Len(target)]
        Term(t, j) ==
            LET sj == src(j)
                i == IF Len(sj) = 1 THEN sj[1] ELSE sj[t[p]]
            IN  k.y[j + 1] * g.dens.num[[t EXCEPT ![p] = i + 1]]
        res == Reduced(Arr(shape,
                   [t \in Indices(shape) |->
                       SumSeq([j1 \in 1..(2 * k.n + 1) |-> Term(t, j1 - 1)])],
                   g.dens.den * k.ysum))
        o == g.obs[p]
        oi == Every(SliceIdx(k.n, 0 - k.n, Len(o)), ds)
        ok == TakeObs(oi, SliceIdx(0, n_max, Len(oi)))
    IN  IF \E j \in 0..(2 * k.n) : ~Fits(j)
        THEN Raise("ValueError", g)
        ELSE Ok([g EXCEPT !.dens = res,
                          !.obs[p] = TakeObs(o, ok),
                          !.step[p] = g.step[p] * ds])

----------------------------------------------------------------------------
(* Grid.dP_sigma: the dependence of de-normalization on the kernel's sigma *)

\* config.conv_err, and the number of trial sigmas np.linspace(0.5, conv_err, 9)
ConvErr == 9
NumSigmas == 9
\* np.finfo(float).precision
FloatPrecision == 15
\* interp1d(kind='cubic') raises ValueError on fewer points than this
CubicMinPoints == 4

RECURSIVE Pow(_, _)
Pow(b, e) == IF e = 0 THEN 1 ELSE b * Pow(b, e - 1)

\* s[j] = 0.5 + j * (conv_err - 0.5) / 8, as <<numerator, denominator>>
TrialSigma(j) ==
    <<(NumSigmas - 1) + j * (2 * ConvErr - 1), 2 * (NumSigmas - 1)>>

\* the first loop: dmar.marginalize(i) for every i with norm[i] false, where i
\* is an axis number of self; it raises IndexError when dmar has no axis i left
RECURSIVE MarginalizeUnnormalized(_, _, _)
MarginalizeUnnormalized(self, r, i) ==
    IF i >= Len(self.obs) \/ r.exc # "" THEN r
    ELSE IF self.norm[i + 1] THEN MarginalizeUnnormalized(self, r, i + 1)
    ELSE IF i >= r.g.dim THEN Raise("IndexError", r.g)
    ELSE MarginalizeUnnormalized(self, Ok(Marginalize(r.g, i)), i + 1)

\* one kernel width j for dimension i: copy dmar, check the fit, convolve,
\* integrate on the region of normalization; dp is d.dens - 1
TrialOn(c, i, j, nsig) ==
    LET s == TrialSigma(j)
        n == KernelHalfWidth(s[1], s[2], nsig, 1)
    IN  IF c.exc # "" THEN [exc |-> c.exc, fits |-> FALSE, dp |-> <<0, 1>>]
        ELSE IF i >= c.g.dim
        THEN [exc |-> "IndexError", fits |-> FALSE, dp |-> <<0, 1>>]
        ELSE Only({IF chk.exc # "" \/ ~chk.val
                   THEN [exc |-> chk.exc, fits |-> FALSE, dp |-> <<0, 1>>]
                   ELSE Only({[exc |-> "", fits |-> TRUE, dp |-> <<v[1] - v[2], v[2]>>] :
                              v \in {Scalar(IntegrateRon(
                                        Convolve(c.g, i, Kernel(s[1], s[2], nsig, 1), 1).g).dens)}})
                   : chk \in {CheckRoi(c.g, i, n)}})
Trial(dmar, i, j, nsig) ==
    Only({TrialOn(c, i, j, nsig) : c \in {GridCopy(dmar)}})

\* the trials j .. 8 of dimension i, appended to dp
RECURSIVE Trials(_, _, _, _, _)
Trials(dmar, i, j, nsig, dp) ==
    IF j >= NumSigmas THEN [exc |-> "", dp |-> dp]
    ELSE Only({IF t.exc # "" THEN [exc |-> t.exc, dp |-> dp]
               ELSE Trials(dmar, i, j + 1, nsig,
                           IF t.fits THEN Append(dp, t.dp) ELSE dp)
               : t \in {Trial(dmar, i, j, nsig)}})

\* -np.log10(np.abs(dp).max()) > np.finfo(float).precision / 3: every |dp| is
\* below 10^-5 (false when a dp is not finite)
Negligible(dp) ==
    \A q \in 1..Len(dp) :
        /\ dp[q][2] > 0
        /\ Abs(dp[q][1]) <= (dp[q][2] - 1) \div Pow(10, FloatPrecision \div 3)

\* the fit: the sigmas (in units of the observable) and the changes dp
Fit(self, i, dp) ==
    [x |-> [q \in 1..Len(dp) |->
              <<self.step[i + 1] * TrialSigma(q - 1)[1], TrialSigma(q - 1)[2]>>],
     y |-> dp]

\* the second loop, from dimension i on
RECURSIVE FitDimensions(_, _, _, _)
FitDimensions(self, dmar, i, nsig) ==
    IF i >= Len(self.obs) THEN Ok(self)
    ELSE IF ~self.norm[i + 1] THEN FitDimensions(self, dmar, i + 1, nsig)
    ELSE Only({IF t.exc # "" THEN Raise(t.exc, self)
               ELSE IF Len(t.dp) < CubicMinPoints THEN Raise("ValueError", self)
               ELSE FitDimensions(
                       [self EXCEPT !.correction[i + 1] =
                           IF Negligible(t.dp) THEN None ELSE Fit(self, i, t.dp)],
                       dmar, i + 1, nsig)
               : t \in {Trials(dmar, i, 0, nsig, <<>>)}})

DPSigma(self, nsig) ==
    Only({IF c.exc # "" THEN Raise(c.exc, self)
          ELSE Only({IF m.exc # "" THEN Raise(m.exc, self)
                     ELSE FitDimensions(self, m.g, 0, nsig)
                     : m \in {MarginalizeUnnormalized(self, c, 0)}})
          : c \in {GridCopy(self)}})

----------------------------------------------------------------------------
(* Grid objects by reference: which arrays and lists two Grids share *)

\* The heap is a sequence of objects; a reference is a position in it.  A Grid
\* object holds one reference per field (obs refers to a list of references to
\* the coordinate arrays) and the integer dim.  An assignment to a field binds
\* a new object; list.pop, item assignment and the augmented assignments of
\* numpy arrays (/=, *=) change the object referred to, for every holder of it.
Obj(dn, ob, st, roi, nm, cr, dm) ==
    [dens |-> dn, obs |-> ob, step |-> st, ROI |-> roi, norm |-> nm,
     correction |-> cr, dim |-> dm]

HOk(h, o) == [exc |-> "", h |-> h, o |-> o]
HRaise(e, h, o) == [exc |-> e, h |-> h, o |-> o]

\* the Grid value an object stands for
Deref(h, o) ==
    MkGrid(h[o.dens], [i \in 1..Len(h[o.obs]) |-> h[h[o.obs][i]]], h[o.step],
           h[o.ROI], h[o.norm], h[o.correction], o.dim)

\* Grid.__init__(dens, obs, ROI, norm, ...): the four arguments are kept by
\* reference; step and correction are new objects
HGridInit(h, dn, ob, roi, nm) ==
    LET n == Len(h[ob])
    IN  IF \E i \in 1..n : Len(h[h[ob][i]]) < 2
        THEN HRaise("IndexError", h, None)
        ELSE HOk(h \o <<[i \in 1..n |-> h[h[ob][i]][2] - h[h[ob][i]][1]],
                        [i \in 1..n |-> None]>>,
                 Obj(dn, ob, Len(h) + 1, roi, nm, Len(h) + 2, n))

\* a variant of copy that hands out the same object: every field is shared
HCopyShared(h, o) == HOk(h, o)
\* Grid.copy: np.copy(dens), a new list of np.copy of each coordinate array,
\* deep copies of ROI, norm and correction
HCopy(h, o) ==
    LET n == Len(h[o.obs])
        b == Len(h)
        h1 == h \o <<h[o.dens]>> \o [i \in 1..n |-> h[h[o.obs][i]]]
                \o <<[i \in 1..n |-> b + 1 + i], h[o.ROI], h[o.norm]>>
        c == HGridInit(h1, b + 1, b + n + 2, b + n + 3, b + n + 4)
    IN  IF c.exc # "" THEN HRaise(c.exc, h, None)
        ELSE HOk(Append(c.h, h[o.correction]),
                 [c.o EXCEPT !.correction = Len(c.h) + 1])

\* Grid.remove_axis: obs, norm and correction are popped in place; ROI and step
\* are bound to the new arrays np.delete returns
HRemoveAxis(h, o, axis) ==
    LET p == AxisPos(axis, o.dim)
        h1 == [h EXCEPT ![o.obs] = RemoveAt(@, p)]
        h2 == [h1 EXCEPT ![o.norm] = RemoveAt(@, p)]
        h3 == [h2 EXCEPT ![o.correction] = RemoveAt(@, p)]
    IN  HOk(h3 \o <<RemoveAt(h3[o.ROI], p), RemoveAt(h3[o.step], p)>>,
            [o EXCEPT !.ROI = Len(h) + 1, !.step = Len(h) + 2, !.dim = @ - 1])

\* the region of an integration by name
NamedRegion(name, roi) ==
    CASE name = "integrate" -> RoiRegion(roi)
      [] name = "integrate_lower" -> <<NegInf, Fin(roi[1])>>
      [] name = "integrate_upper" -> <<Fin(roi[2]), PosInf>>
      [] name = "marginalize" -> <<NegInf, PosInf>>

\* Grid.integrate: dens is bound to the new array np.sum returns
HIntegrate(h, o, region, axis) ==
    LET g == Deref(h, o)
        d == ArrSumAxis(g.dens, W(g, region, axis), AxisPos(axis, o.dim))
    IN  HRemoveAxis(Append(h, d), [o EXCEPT !.dens = Len(h) + 1], axis)

\* Grid.integrate_ron
RECURSIVE HIntegrateRon(_, _)
HIntegrateRon(h, o) ==
    IF o.dim > 0
    THEN LET g == Deref(h, o)
             region == IF g.norm[Len(g.norm)] THEN RoiRegion(g.ROI[Len(g.ROI)])
                       ELSE <<NegInf, PosInf>>
             r == HIntegrate(h, o, region, -1)
         IN  HIntegrateRon(r.h, r.o)
    ELSE HOk(h, o)

\* Grid.normalize: self.dens /= norm divides the array self.dens refers to
HNormalize(h, o) ==
    LET c == HCopy(h, o)
    IN  IF c.exc # "" THEN HRaise(c.exc, h, o)
        ELSE LET d == HIntegrateRon(c.h, c.o)
             IN  HOk([d.h EXCEPT ![o.dens] = Divide(@, d.h[d.o.dens])], o)

\* Grid.convolve: dens is bound to a new array, self.obs[axis] = obs[::ds]
\* sets an item of the list obs, self.step[axis] *= ds changes the array step
HConvolve(h, o, axis, k, ds) ==
    LET p == AxisPos(axis, o.dim)
        r == Convolve(Deref(h, o), axis, k, ds).g
        h1 == h \o <<r.dens, r.obs[p]>>
        h2 == [h1 EXCEPT ![o.obs] = [@ EXCEPT ![p] = Len(h) + 2]]
    IN  HOk([h2 EXCEPT ![o.step] = [@ EXCEPT ![p] = @ * ds]],
            [o EXCEPT !.dens = Len(h) + 1])

----------------------------------------------------------------------------
(* calc_cluster.py: the density of the cluster model at one star *)

\* config.nsig, and nsig = cf.nsig - 1 standard deviations of a wide kernel
CfNsig == 4
StarNsig == CfNsig - 1

\* A position x (in pixels) is the rational xn/PosDen, a residual standard
\* deviation s (in pixels) the rational sn/SigDen.
PosDen == 2

\* obs0 = floor(obs), obs1 = floor(obs - nsig*sigma),
\* obs2 = ceil(obs + nsig*sigma + 1)
Obs0(xn) == FloorDiv(xn, PosDen)
Obs1(xn, sn) == FloorDiv(xn * SigDen - StarNsig * sn * PosDen, PosDen * SigDen)
Obs2(xn, sn) ==
    CeilDiv(xn * SigDen + StarNsig * sn * PosDen + PosDen * SigDen, PosDen * SigDen)

\* s < 1./2
Narrow(sn) == 2 * sn < SigDen

\* kernel_j and its slice for one present observable: the weights w (integers
\* over a common unit) and slice(start, stop)
KernelJ(xn, sn) ==
    IF Narrow(sn)
    THEN LET x0 == Obs0(xn)
         IN  [w |-> <<(x0 + 1) * PosDen - xn, xn - x0 * PosDen>>,
              start |-> x0, stop |-> x0 + 1]
    ELSE LET x1 == Obs1(xn, sn)
             x2 == Obs2(xn, sn)
         IN  [w |-> [q \in 1..(x2 - x1) |->
                        ExpNeg(((x1 + q - 1) * PosDen - xn) * ((x1 + q - 1) * PosDen - xn)
                                  * SigDen * SigDen,
                               2 * sn * sn * PosDen * PosDen)],
              start |-> x1, stop |-> x2]

\* np.sum(kernels[i] * density1.dens[slices[i]]) / np.prod(density1.step), for
\* the kernel np.multiply.outer of the kernel_j over np.sum(kernel).  numpy
\* broadcasts an axis of the sliced density of length 1 along the kernel, and
\* raises ValueError for any other length that differs from the kernel's.
Evaluate(d, xs, ss) ==
    LET kj == [j \in 1..Len(xs) |-> KernelJ(xs[j], ss[j])]
        idx == [j \in 1..Len(xs) |->
                   SliceIdx(kj[j].start, kj[j].stop, d.dens.shape[j])]
        kshape == [j \in 1..Len(xs) |-> Len(kj[j].w)]
        Node(t, j) == IF Len(idx[j]) = 1 THEN idx[j][1] + 1 ELSE idx[j][t[j]] + 1
        Term(t) == SeqProd([j \in 1..Len(xs) |-> kj[j].w[t[j]]])
                      * d.dens.num[[j \in 1..Len(xs) |-> Node(t, j)]]
    IN  IF \E j \in 1..Len(xs) : Len(idx[j]) # kshape[j] /\ Len(idx[j]) # 1
        THEN [exc |-> "ValueError", num |-> 0, den |-> 1]
        ELSE [exc |-> "",
              num |-> SumSeq([q \in 1..SeqProd(kshape) |->
                                 Term(Unravel(q - 1, kshape))]),
              den |-> d.dens.den * SeqProd([j \in 1..Len(xs) |-> SumSeq(kj[j].w)])
                         * SeqProd(d.step)]

\* ld.obs[i, j]: NaN, or the number v/PosDen; a vsini below the threshold of
\* measurement is recorded as the number -1
NaN == [nan |-> TRUE, v |-> 0]
Num(v) == [nan |-> FALSE, v |-> v]
Sentinel == 0 - PosDen

\* ~np.isnan(ld.obs[i, j]) and ld.obs[i, j] != -1, and a variant that lets the
\* sentinel through
PresentNotNaN(o) == ~o.nan
Present(o) == ~o.nan /\ o.v # Sentinel

\* the masks mn, m0 and mv of the background density: the set of the masks
\* that hold for a star
BackMasks(row) ==
    LET mn == row[Len(row)].nan
        m0 == ~row[Len(row)].nan /\ row[Len(row)].v = Sentinel
        mv == ~mn /\ ~m0
    IN  {m \in {"mn", "m0", "mv"} :
            \/ m = "mn" /\ mn
            \/ m = "m0" /\ m0
            \/ m = "mv" /\ mv}

\* the loop over the dimensions j for one star: kernel_j and its slice are
\* appended for the observables that pass the test of line 66; kernel stays
\* None when no observable does and kernel /= np.sum(kernel) raises TypeError.
\* The positions in pixels are the observables themselves (density.obs[j][0]
\* = 0 and density.step[j] = 1).
RECURSIVE StarKernel(_, _, _)
StarKernel(row, sig, j) ==
    IF j = 0 THEN <<>>
    ELSE LET rest == StarKernel(row, sig, j - 1)
         IN  IF Present(row[j])
             THEN Append(rest, [axis |-> j, k |-> KernelJ(row[j].v, sig[j])])
             ELSE rest
StarKernels(row, sig) ==
    LET ks == StarKernel(row, sig, Len(row))
    IN  [exc |-> IF ks = <<>> THEN "TypeError" ELSE "",
         kshape |-> [q \in 1..Len(ks) |-> Len(ks[q].k.w)],
         axes |-> [q \in 1..Len(ks) |-> ks[q].axis],
         slc |-> [q \in 1..Len(ks) |-> <<ks[q].k.start, ks[q].k.stop>>]]

\* the index of density1 in densities[k], by the status of the measurement of
\* vsini
VariantIndex(row) ==
    IF row[Len(row)].nan THEN 1
    ELSE IF row[Len(row)].v = Sentinel THEN 2
    ELSE 0

----------------------------------------------------------------------------
(* calc_cluster.py: the maximum of the likelihood with respect to q *)

\* eps = np.finfo(float).eps is 1/EpsInv here
EpsInv == 64
\* the root of dlogL is located between two neighbours of the points k/QDen
QDen == 8

\* a rational <<n, d>> with d > 0; d = 0 stands for a value that is not finite
\* (sums are kept in lowest terms)
FracAdd(x, y) ==
    IF x[2] = 0 \/ y[2] = 0 THEN <<0, 0>>
    ELSE LET c == GCD(x[2], y[2])
             n == x[1] * (y[2] \div c) + y[1] * (x[2] \div c)
             d == (x[2] \div c) * y[2]
             g == GCD(Abs(n), d)
         IN  <<n \div g, d \div g>>
RECURSIVE FracSum(_)
FracSum(s) == IF s = <<>> THEN <<0, 1>> ELSE FracAdd(Head(s), FracSum(Tail(s)))

\* a variant with the terms 1 / (qi - q)
DlogLTermNegated(qn, qd, s) ==
    LET n == (s.b - s.f) * qd
        d == qn * (s.b - s.f) - s.b * qd
    IN  IF d = 0 THEN <<0, 0>>
        ELSE IF d < 0 THEN <<n, 0 - d>> ELSE <<0 - n, d>>

\* one term 1 / (q - qi) of dlogL at q = qn/qd, for r = fw / back = f/b and
\* qi = 1 / (1 - r): it is (b - f) / (q*(b - f) - b).  For r = 1 numpy gives
\* qi = inf and the term -0.; a term is not finite when q = qi
DlogLTerm(qn, qd, s) ==
    LET n == (s.b - s.f) * qd
        d == qn * (s.b - s.f) - s.b * qd
    IN  IF d = 0 THEN <<0, 0>>
        ELSE IF d < 0 THEN <<0 - n, 0 - d>> ELSE <<n, d>>

\* dlogL(x, qi) for x = k/QDen: q is eps for x = 0 and 1 - eps for x = 1
DlogL(k, stars) ==
    LET q == IF k = 0 THEN <<1, EpsInv>>
             ELSE IF k = QDen THEN <<EpsInv - 1, EpsInv>>
             ELSE <<k, QDen>>
    IN  FracSum([i \in 1..Len(stars) |-> DlogLTerm(q[1], q[2], stars[i])])

\* comparisons of a float with 0: both are false for nan
LeZero(x) == x[2] > 0 /\ x[1] <= 0
GeZero(x) == x[2] > 0 /\ x[1] >= 0

\* root_scalar(dlogL, args=(qi,), bracket=[0., 1.]): ValueError unless dlogL
\* has opposite signs at the two ends of the bracket; otherwise a root, between
\* two neighbouring points where dlogL changes sign
RootScalar(stars) ==
    LET a == DlogL(0, stars)
        b == DlogL(QDen, stars)
    IN  IF \/ a[2] = 0 \/ b[2] = 0
           \/ (a[1] >= 0 /\ b[1] >= 0) \/ (a[1] <= 0 /\ b[1] <= 0)
        THEN {[exc |-> "ValueError", q |-> "none", lo |-> 0, hi |-> 0]}
        ELSE {[exc |-> "", q |-> "root", lo |-> k, hi |-> k + 1] :
                 k \in {m \in 0..(QDen - 1) :
                           LET u == DlogL(m, stars)
                               v == DlogL(m + 1, stars)
                           IN  /\ u[2] > 0 /\ v[2] > 0
                               /\ \/ (u[1] >= 0 /\ v[1] <= 0)
                                  \/ (u[1] <= 0 /\ v[1] >= 0)}}

\* a variant that tests the derivative at q = 0 only
QmaxAtZeroOnly(stars) ==
    IF LeZero(DlogL(0, stars))
    THEN {[exc |-> "", q |-> "0", lo |-> 0, hi |-> 0]}
    ELSE {[exc |-> "", q |-> "1", lo |-> QDen, hi |-> QDen]}
\* the maximum of the likelihood w.r.t. q: the outcomes of lines 154-156
Qmax(stars) ==
    IF LeZero(DlogL(0, stars)) /\ LeZero(DlogL(QDen, stars))
    THEN {[exc |-> "", q |-> "0", lo |-> 0, hi |-> 0]}
    ELSE IF GeZero(DlogL(0, stars)) /\ GeZero(DlogL(QDen, stars))
    THEN {[exc |-> "", q |-> "1", lo |-> QDen, hi |-> QDen]}
    ELSE RootScalar(stars)

----------------------------------------------------------------------------
(* calc_cluster.py: the correction of the normalization of one star *)

\* rationals <<n, d>> with d > 0
FracLe(a, b) == a[1] * b[2] <= b[1] * a[2]
FracMul(a, b) ==
    LET n == a[1] * b[1]
        d == a[2] * b[2]
        g == GCD(Abs(n), d)
    IN  <<n \div g, d \div g>>
FracNeg(a) == <<0 - a[1], a[2]>>
FracInv(a) == IF a[1] < 0 THEN <<0 - a[2], 0 - a[1]>> ELSE <<a[2], a[1]>>

\* dp = y0 + (s - x0) * (y1 - y0) / (x1 - x0) for the last two samples of the
\* fit
LinearExtrapolation(spl, s) ==
    LET m == Len(spl.x)
        x0 == spl.x[m]
        y0 == spl.y[m]
        x1 == spl.x[m - 1]
        y1 == spl.y[m - 1]
    IN  FracAdd(y0, FracMul(FracMul(FracAdd(s, FracNeg(x0)), FracAdd(y1, FracNeg(y0))),
                            FracInv(FracAdd(x1, FracNeg(x0)))))

\* the body of the loop over the dimensions j of density1, for the sigma s in
\* units of the observable: nothing when there is no interpolant, the
\* interpolant dP_spline(s) when s <= dP_spline.x[j], the linear extrapolation
\* otherwise.  The value of the interpolant at s is not computed: how is
\* "spline" and at is s.
Leakage(spl, j, s) ==
    IF spl = None THEN [how |-> "none", at |-> s, dp |-> <<0, 1>>]
    ELSE IF FracLe(s, spl.x[j + 1]) THEN [how |-> "spline", at |-> s, dp |-> <<0, 1>>]
    ELSE [how |-> "linear", at |-> s, dp |-> LinearExtrapolation(spl, s)]

----------------------------------------------------------------------------
(* calc_cluster.py: the grid of the proportions w0 and w1, in binary64 *)

\* The proportions and their sums and differences are IEEE doubles.  A double
\* in [0, 2] that is a multiple of 2^-59 is held as three limbs <<a, b, c>>,
\* the number ((a * Limb + b) * Limb + c) * 2^-59; every operation is the
\* exact one followed by the rounding to 53 significant bits (Fl).
Limb == 1048576
LimbBits == 20
MantissaBits == 53
\* 1.0 = 2^59 units
One == <<524288, 0, 0>>

\* number of points of np.linspace(0, 1, 101)
NumW == 101

\* carries, for limbs that left 0 .. Limb - 1
BigNorm(x) ==
    LET b == x[2] + (x[3] \div Limb)
    IN  <<x[1] + (b \div Limb), b % Limb, x[3] % Limb>>
BigAdd(x, y) == BigNorm(<<x[1] + y[1], x[2] + y[2], x[3] + y[3]>>)
\* x - y for x >= y
BigSub(x, y) == BigNorm(<<x[1] - y[1], x[2] - y[2], x[3] - y[3]>>)
\* x * i for a small integer i
BigMul(x, i) == BigNorm(<<x[1] * i, x[2] * i, x[3] * i>>)
BigLess(x, y) ==
    \/ x[1] < y[1]
    \/ x[1] = y[1] /\ (x[2] < y[2] \/ (x[2] = y[2] /\ x[3] < y[3]))

RECURSIVE BitLen(_)
BitLen(n) == IF n = 0 THEN 0 ELSE 1 + BitLen(n \div 2)

\* the rounding of an exact result to the nearest double, ties to even
Fl(x) ==
    LET k == BitLen(x[1]) + 2 * LimbBits - MantissaBits
        u == Pow(2, k)
        r == x[3] % u
        down == <<x[1], x[2], x[3] - r>>
        up == BigNorm(<<x[1], x[2], x[3] - r + u>>)
    IN  IF k <= 0 THEN x
        ELSE IF 2 * r < u THEN down
        ELSE IF 2 * r > u THEN up
        ELSE IF ((x[3] - r) \div u) % 2 = 0 THEN down ELSE up

\* the quotient x / d for a small integer d, to the nearest unit (ties to
\* even); it is the double nearest to x / d when it has at most 53 bits
BigDivRound(x, d) ==
    LET t2 == (x[1] % d) * Limb + x[2]
        t3 == (t2 % d) * Limb + x[3]
        q == <<x[1] \div d, t2 \div d, t3 \div d>>
        r == t3 % d
    IN  IF 2 * r > d \/ (2 * r = d /\ q[3] % 2 = 1)
        THEN BigAdd(q, <<0, 0, 1>>) ELSE q

\* np.linspace(0, 1, 101)[i]: step = 1. / 100, y = arange(0, 101) * step + 0.
\* and the last sample is set to the stop value
LinspaceStep == Fl(BigDivRound(One, NumW - 1))
Linspace(i) == IF i = NumW - 1 THEN One ELSE Fl(BigMul(LinspaceStep, i))

\* 1 - wi0 - wi1, evaluated from the left: its sign (-1, 0 or 1)
MiddleWeightSign(i, j) ==
    LET a == Fl(BigSub(One, Linspace(i)))
    IN  IF BigLess(a, Linspace(j)) THEN 0 - 1
        ELSE IF a = Linspace(j) THEN 0 ELSE 1

\* wi0 + wi1 > 1 in doubles
SumAboveOne(i, j) == BigLess(One, Fl(BigAdd(Linspace(i), Linspace(j))))

----------------------------------------------------------------------------
(* lib/mist_util.py: Grid.coarsen on one model dimension *)

\* The observables of one grid value of the focal dimension are a sequence of
\* entries (the other model dimensions and the observables, flattened), each
\* NaN or Num(v); std gives the standard deviation of each entry.  A
\* normalized difference is a rational <<n, d>>, <<0, 0>> when it is NaN.
IsNan(x) == x[2] = 0

\* np.abs(a - b) / self.std
NormDiff(a, b, std) ==
    [k \in 1..Len(a) |->
        IF a[k].nan \/ b[k].nan THEN <<0, 0>> ELSE <<Abs(a[k].v - b[k].v), std[k]>>]

\* np.nanmax: the largest entry that is not NaN, NaN for an all-NaN slice
NanMax(s) ==
    LET fin == {k \in 1..Len(s) : ~IsNan(s[k])}
    IN  IF fin = {} THEN <<0, 0>>
        ELSE s[CHOOSE k \in fin : \A m \in fin : FracLe(s[m], s[k])]

\* Grid.get_maxdiff: per interval of the focal dimension
GetMaxdiff(o, std) ==
    [q \in 1..(Len(o) - 1) |-> NanMax(NormDiff(o[q + 1], o[q], std))]

\* np.argsort(maxdiff): the orders of the indices 0 .. n-1 in which the values
\* do not decrease, NaN last; the default sort is not stable, so that equal
\* values come in any order
Argsort(m) ==
    LET Before(x, y) == ~IsNan(x) /\ (IsNan(y) \/ x[1] * y[2] < y[1] * x[2])
    IN  {p \in [1..Len(m) -> 0..(Len(m) - 1)] :
            /\ \A a, b \in 1..Len(m) : a # b => p[a] # p[b]
            /\ \A a, b \in 1..Len(m) : a < b => ~Before(m[p[b] + 1], m[p[a] + 1])}

\* maxright > dmax (false for NaN), and a variant that never finds a merged
\* interval too wide
ExceedsNever(x, dmax) == FALSE
Exceeds(x, dmax) == ~IsNan(x) /\ ~FracLe(x, dmax)
\* maxdiff[j] >= dmax
AtLeast(x, dmax) == ~IsNan(x) /\ FracLe(dmax, x)

\* the stopping condition: np.isnan(maxdiff[j]) or maxdiff[j] >= dmax
Stops(maxdiff, j, dmax) == IsNan(maxdiff[j + 1]) \/ AtLeast(maxdiff[j + 1], dmax)

\* the difference over the two intervals from index lo to index lo + 2, NaN
\* when it is above dmax
Merged(o, lo, std, dmax) ==
    LET m == NanMax(NormDiff(o[lo + 3], o[lo + 1], std))
    IN  IF Exceeds(m, dmax) THEN <<0, 0>> ELSE m

\* merge = 'left', 'right' or None
MergeSide(maxleft, maxright) ==
    IF ~IsNan(maxleft)
    THEN IF ~IsNan(maxright)
         THEN IF FracLe(maxleft, maxright) THEN "left" ELSE "right"
         ELSE "left"
    ELSE IF ~IsNan(maxright) THEN "right"
    ELSE "None"

----------------------------------------------------------------------------
(* Specification SpecKernel: Kernel applied to bounded arguments *)

MinSig == 0 - MaxSig

KernelArgs ==
    [sn : MinSig..MaxSig, sd : {SigDen}, nsig : 1..MaxNsig, ds : 1..MaxDs]

IdleGrid ==
    /\ dens = None /\ obs = <<>> /\ step = <<>> /\ ROI = <<>> /\ norm = <<>>
    /\ correction = <<>> /\ dim = 0 /\ last = None /\ nconv = 0
IdleKernel == kargs = None /\ kernel = None
IdleStar == star = None /\ sval = None
IdleHeap == heap = <<>> /\ orig = None /\ cpy = None
IdleLik == fb = None /\ qmax = None
IdleLL == wi = 0 - 1 /\ wj = 0 - 1 /\ ll = {}
IdleCorr == corr = None /\ cdp = None
IdleCoarsen == coarsen = None
IdleCalc == IdleLik /\ IdleLL /\ IdleCorr

InitKernel ==
    /\ kargs \in KernelArgs
    /\ kernel = None
    /\ IdleGrid /\ IdleStar /\ IdleHeap /\ IdleCalc /\ IdleCoarsen

BuildKernel ==
    /\ kargs # None
    /\ kernel = None
    /\ kernel' = Kernel(kargs.sn, kargs.sd, kargs.nsig, kargs.ds)
    /\ UNCHANGED <<kargs, gridvars, starvars, heapvars, likvars, llvars, corrvars, mgvars>>

NextKernel == BuildKernel

SpecKernel == InitKernel /\ [][NextKernel]_vars

----------------------------------------------------------------------------
(* Claims about Kernel, checked under SpecKernel *)

Built == kernel # None
SigmaPositive == kargs # None /\ kargs.sn > 0

\* C7: for sigma > 0, nsig >= 1 and ds >= 1 the half-width n is a positive
\* multiple of ds with nsig*sigma <= n < nsig*sigma + ds, and the kernel has
\* exactly 2n+1 weights.
C7_HalfWidth ==
    (Built /\ SigmaPositive) =>
        /\ kernel.exc = ""
        /\ kernel.n > 0
        /\ kernel.n % kargs.ds = 0
        /\ kargs.nsig * kargs.sn <= kernel.n * kargs.sd
        /\ kernel.n * kargs.sd < kargs.nsig * kargs.sn + kargs.ds * kargs.sd
        /\ Len(kernel.y) = 2 * kernel.n + 1

\* a kernel whose half-width had to be rounded up to the next multiple of ds
C7_Witness ==
    /\ Built /\ SigmaPositive
    /\ kargs.ds > 1
    /\ kernel.n > CeilDiv(kargs.nsig * kargs.sn, kargs.sd)
    /\ Len(kernel.y) = 2 * kernel.n + 1

\* C8: for sigma > 0 and nsig >= 1 the weights are symmetric about the centre
\* and sum to 1 (the numerators sum to the common denominator, which is not 0);
\* Kernel(sigma=1, nsig=2) has half-width 2 and 5 weights.
C8_SymmetricUnitSum ==
    (Built /\ SigmaPositive) =>
        /\ \A i \in 0..(2 * kernel.n) :
              kernel.y[i + 1] = kernel.y[2 * kernel.n - i + 1]
        /\ ~kernel.nan
        /\ kernel.ysum > 0
        /\ SumSeq(kernel.y) = kernel.ysum
        /\ (kargs.sn = kargs.sd /\ kargs.nsig = 2 /\ kargs.ds = 1) =>
              (kernel.n = 2 /\ Len(kernel.y) = 5)

\* Kernel(sigma=1, nsig=2): five weights that fall off from the centre
C8_Witness ==
    /\ Built
    /\ kargs.sn = kargs.sd /\ kargs.nsig = 2 /\ kargs.ds = 1
    /\ Len(kernel.y) = 5
    /\ kernel.y[1] < kernel.y[2] /\ kernel.y[2] < kernel.y[3]
    /\ kernel.y[1] > 0

\* C9: building a Kernel with sigma <= 0 fails with InvalidParameter.
C9_NonPositiveSigmaRejected ==
    (Built /\ kargs.sn <= 0) => kernel.exc = "InvalidParameter"

----------------------------------------------------------------------------
(* The grids the specifications start from *)

\* an evenly spaced axis of len points from 0
AxisObs(len, st) == [i \in 1..len |-> (i - 1) * st]

\* a density that is level everywhere but at index c of every axis, where it
\* is 2 higher
Peaked(shape, c, level) ==
    LET Dist(t) == SumSeq([k \in 1..Len(shape) |-> Abs(t[k] - c)])
    IN  Arr(shape,
            [t \in Indices(shape) |-> level + (IF Dist(t) = 0 THEN 2 ELSE 0)],
            1)

\* an axis of len points with step st whose ROI leaves a points below it and b
\* points above it; with a step above 1 the upper bound lies between two points
Axis(len, st, a, b, nm) ==
    [len |-> len, st |-> st, lo |-> a * st,
     hi |-> (len - 1 - b) * st + (st - 1), nm |-> nm]

GridOf(ax, c, level) ==
    GridInit(Peaked([k \in 1..Len(ax) |-> ax[k].len], c, level),
             [k \in 1..Len(ax) |-> AxisObs(ax[k].len, ax[k].st)],
             [k \in 1..Len(ax) |-> <<ax[k].lo, ax[k].hi>>],
             [k \in 1..Len(ax) |-> ax[k].nm]).g

Margins == (0..MaxMargin) \X (0..MaxMargin)

\* the second axis of the two-axis grids: two points less than the first, the
\* other step, the ROI on its first two points
Second(st, nm) == Axis(MaxLen - 2, MaxStep + 1 - st, 0, MaxLen - 4, nm)

\* a long axis with the ROI at its middle point, on which four of the kernels
\* of dP_sigma fit for nsig = 1
LongLen == 9
Long == Axis(LongLen, 1, (LongLen - 1) \div 2, LongLen \div 2, TRUE)

\* one axis, with the peak at the first point or at the lower bound of the ROI,
\* on the level 0 or 1
Grids1 ==
    {GridOf(<<Axis(len, st, m[1], m[2], nm)>>, c, level) :
        len \in {MaxLen - 1, MaxLen}, st \in 1..MaxStep, m \in Margins,
        nm \in BOOLEAN, c \in {1, 2}, level \in 0..1}
\* two axes of different lengths and steps
Grids2 ==
    {GridOf(<<Axis(MaxLen, st, m[1], m[2], nm[1]), Second(st, nm[2])>>, 2, level) :
        st \in 1..MaxStep, m \in Margins, nm \in BOOLEAN \X BOOLEAN,
        level \in 0..1}
GridsLong == {GridOf(<<Long>>, (LongLen + 1) \div 2, 1)}

\* one axis of step 2 whose ROI lies between two grid points
Gap == [len |-> MaxLen, st |-> 2, lo |-> 1, hi |-> 1, nm |-> TRUE]
GridsGap == {GridOf(<<Gap>>, 1, 1)}

----------------------------------------------------------------------------
(* Specification Spec: sequences of Grid operations, from construction *)

Self == MkGrid(dens, obs, step, ROI, norm, correction, dim)

SetGrid(g) ==
    /\ dens' = g.dens /\ obs' = g.obs /\ step' = g.step /\ ROI' = g.ROI
    /\ norm' = g.norm /\ correction' = g.correction /\ dim' = g.dim

IsGrid(g) ==
    /\ dens = g.dens /\ obs = g.obs /\ step = g.step /\ ROI = g.ROI
    /\ norm = g.norm /\ correction = g.correction /\ dim = g.dim

Op(name, axis, region, n, ds, exc, val) ==
    [op |-> name, axis |-> axis, region |-> region, n |-> n, ds |-> ds,
     exc |-> exc, val |-> val, pre |-> Self]

All == <<NegInf, PosInf>>

\* the grids the sequences start from: two axes, each normalized or not, and
\* the long grids
SeqGrids ==
    {GridOf(<<Axis(MaxLen, 1, 1, 0, nm[1]), Second(1, nm[2])>>, 2, 1) :
        nm \in BOOLEAN \X BOOLEAN}
    \cup GridsLong

Init ==
    /\ \E g \in SeqGrids : IsGrid(g)
    /\ last = None
    /\ nconv = 0
    /\ IdleKernel /\ IdleStar /\ IdleHeap /\ IdleCalc /\ IdleCoarsen

AxisArgs == 0..(dim - 1)

\* the regions integrate is called with
Regions == {<<Fin(a), Fin(b)>> : a \in 0..1, b \in 1..MaxRegion}

\* the kernels convolve is called with: each is built for the downsample
\* factor used, so that its half-width is a multiple of it.  The sequences use
\* sigma = 1/SigDen and sigma = -1/SigDen, the kernel of half-width 0.
ConvKernels(sigs, nsigs, ds) ==
    {Kernel(sn, SigDen, nsig, ds) : sn \in sigs, nsig \in nsigs}

DoCopy ==
    /\ LET c == GridCopy(Self)
       IN  /\ last' = Op("copy", 0, All, 0, 0, c.exc, FALSE)
           /\ IF c.exc = "" THEN SetGrid(c.g) ELSE SetGrid(Self)
    /\ UNCHANGED <<nconv, kernvars, starvars, heapvars, likvars, llvars, corrvars, mgvars>>

DoIntegrate ==
    /\ \E axis \in AxisArgs, region \in Regions :
          /\ SetGrid(Integrate(Self, region, axis))
          /\ last' = Op("integrate", axis, region, 0, 0, "", FALSE)
    /\ UNCHANGED <<nconv, kernvars, starvars, heapvars, likvars, llvars, corrvars, mgvars>>

DoIntegrateLower ==
    /\ \E axis \in AxisArgs :
          /\ SetGrid(IntegrateLower(Self, axis))
          /\ last' = Op("integrate_lower", axis, All, 0, 0, "", FALSE)
    /\ UNCHANGED <<nconv, kernvars, starvars, heapvars, likvars, llvars, corrvars, mgvars>>

DoIntegrateUpper ==
    /\ \E axis \in AxisArgs :
          /\ SetGrid(IntegrateUpper(Self, axis))
          /\ last' = Op("integrate_upper", axis, All, 0, 0, "", FALSE)
    /\ UNCHANGED <<nconv, kernvars, starvars, heapvars, likvars, llvars, corrvars, mgvars>>

DoMarginalize ==
    /\ \E axis \in AxisArgs :
          /\ SetGrid(Marginalize(Self, axis))
          /\ last' = Op("marginalize", axis, All, 0, 0, "", FALSE)
    /\ UNCHANGED <<nconv, kernvars, starvars, heapvars, likvars, llvars, corrvars, mgvars>>

DoIntegrateRon ==
    /\ SetGrid(IntegrateRon(Self))
    /\ last' = Op("integrate_ron", 0, All, IntegrateRonSteps(Self), 0, "", FALSE)
    /\ UNCHANGED <<nconv, kernvars, starvars, heapvars, likvars, llvars, corrvars, mgvars>>

DoNormalize ==
    /\ LET r == Normalize(Self)
       IN  /\ SetGrid(r.g)
           /\ last' = Op("normalize", 0, All, 0, 0, r.exc, FALSE)
    /\ UNCHANGED <<nconv, kernvars, starvars, heapvars, likvars, llvars, corrvars, mgvars>>

\* one of the three implementations of the convolution, by name
ConvolveBy(name, g, axis, k, ds) ==
    CASE name = "convolve" -> Convolve(g, axis, k, ds)
      [] name = "convolve_numpy" -> ConvolveNumpy(g, axis, k, ds)
      [] name = "convolve_downsample" -> ConvolveDownsample(g, axis, k, ds)

ConvolveStep(name, sigs, nsigs, dss) ==
    \E axis \in AxisArgs, ds \in dss :
       \E k \in ConvKernels(sigs, nsigs, ds) :
          LET r == ConvolveBy(name, Self, axis, k, ds)
          IN  /\ SetGrid(r.g)
              /\ last' = Op(name, axis, All, k.n, ds, r.exc, FALSE)

DoConvolve ==
    /\ nconv < MaxConv
    /\ ConvolveStep("convolve", {0 - 1, 1}, {1}, 1..2)
    /\ nconv' = nconv + 1
    /\ UNCHANGED <<kernvars, starvars, heapvars, likvars, llvars, corrvars, mgvars>>

DoConvolveNumpy ==
    /\ nconv < MaxConv
    /\ ConvolveStep("convolve_numpy", {0 - 1, 1}, {1}, 1..2)
    /\ nconv' = nconv + 1
    /\ UNCHANGED <<kernvars, starvars, heapvars, likvars, llvars, corrvars, mgvars>>

DoConvolveDownsample ==
    /\ nconv < MaxConv
    /\ ConvolveStep("convolve_downsample", {0 - 1, 1}, {1}, 1..2)
    /\ nconv' = nconv + 1
    /\ UNCHANGED <<kernvars, starvars, heapvars, likvars, llvars, corrvars, mgvars>>

DoDPSigma ==
    /\ LET r == DPSigma(Self, 1)
       IN  /\ SetGrid(r.g)
           /\ last' = Op("dP_sigma", 0, All, 1, 0, r.exc, FALSE)
    /\ UNCHANGED <<nconv, kernvars, starvars, heapvars, likvars, llvars, corrvars, mgvars>>

Next ==
    \/ DoCopy
    \/ DoIntegrate
    \/ DoIntegrateLower
    \/ DoIntegrateUpper
    \/ DoMarginalize
    \/ DoIntegrateRon
    \/ DoNormalize
    \/ DoConvolve
    \/ DoConvolveNumpy
    \/ DoConvolveDownsample
    \/ DoDPSigma

Spec == Init /\ [][Next]_vars

----------------------------------------------------------------------------
(* Specification SpecInt: one integration or normalization of a grid *)

InitInt ==
    /\ \E g \in Grids1 \cup Grids2 : IsGrid(g)
    /\ last = None
    /\ nconv = 0
    /\ IdleKernel /\ IdleStar /\ IdleHeap /\ IdleCalc /\ IdleCoarsen

IntIntegrate == last = None /\ DoIntegrate
IntIntegrateLower == last = None /\ DoIntegrateLower
IntIntegrateUpper == last = None /\ DoIntegrateUpper
IntMarginalize == last = None /\ DoMarginalize
IntIntegrateRon == last = None /\ DoIntegrateRon
IntNormalize == last = None /\ DoNormalize

NextInt ==
    \/ IntIntegrate
    \/ IntIntegrateLower
    \/ IntIntegrateUpper
    \/ IntMarginalize
    \/ IntIntegrateRon
    \/ IntNormalize

SpecInt == InitInt /\ [][NextInt]_vars

----------------------------------------------------------------------------
(* Specification SpecRoi: one check_roi of a grid against a kernel *)

InitRoi ==
    /\ \E g \in Grids1 \cup Grids2 \cup GridsLong \cup GridsGap : IsGrid(g)
    /\ last = None
    /\ nconv = 0
    /\ IdleKernel /\ IdleStar /\ IdleHeap /\ IdleCalc /\ IdleCoarsen

\* the kernels check_roi and convolve are called with: every Kernel that was
\* constructed, for a sigma that is positive or not
Kernels(dss) ==
    {k \in {Kernel(a.sn, a.sd, a.nsig, a.ds) : a \in {b \in KernelArgs : b.ds \in dss}} :
        k.exc = ""}

DoCheckRoi ==
    /\ last = None
    /\ \E axis \in AxisArgs, k \in Kernels({1}) :
          LET r == CheckRoi(Self, axis, k.n)
          IN  last' = Op("check_roi", axis, All, k.n, 0, r.exc, r.val)
    /\ UNCHANGED <<dens, obs, step, ROI, norm, correction, dim, nconv,
                   kernvars, starvars, heapvars, likvars, llvars, corrvars, mgvars>>

NextRoi == DoCheckRoi

SpecRoi == InitRoi /\ [][NextRoi]_vars

----------------------------------------------------------------------------
(* Specification SpecConv: one convolve of a grid with a kernel *)

\* one axis, short or long, and two axes
ConvGrids ==
    {GridOf(<<Axis(len, st, 0, 0, TRUE)>>, 2, 1) :
        len \in {MaxLen, MaxLen + 1, LongLen}, st \in 1..MaxStep}
    \cup {GridOf(<<Axis(MaxLen, st, 0, 0, TRUE), Second(st, FALSE)>>, 2, 1) :
             st \in 1..MaxStep}

InitConv ==
    /\ \E g \in ConvGrids : IsGrid(g)
    /\ last = None
    /\ nconv = 0
    /\ IdleKernel /\ IdleStar /\ IdleHeap /\ IdleCalc /\ IdleCoarsen

\* the kernel is one built for the downsample factor used, or for none
ConvConvolve ==
    /\ last = None
    /\ \E axis \in AxisArgs, ds \in 1..MaxDs :
          \E k \in Kernels({1, ds}) :
             LET r == Convolve(Self, axis, k, ds)
             IN  /\ SetGrid(r.g)
                 /\ last' = Op("convolve", axis, All, k.n, ds, r.exc, k.nan)
    /\ nconv' = nconv + 1
    /\ UNCHANGED <<kernvars, starvars, heapvars, likvars, llvars, corrvars, mgvars>>

NextConv == ConvConvolve

SpecConv == InitConv /\ [][NextConv]_vars

----------------------------------------------------------------------------
(* Specification SpecStar: the evaluation of one star on its density *)

\* a density that differs from node to node: the sum over the axes k of
\* k * (index on axis k)^2, plus c
StarDens(shape, c) ==
    Arr(shape,
        [t \in Indices(shape) |->
            c + SumSeq([k \in 1..Len(shape) |-> k * t[k] * t[k]])],
        1)

\* densities[k]: on both observables, without the last (no vsini measured),
\* and at the vsini = 0 boundary
Densities ==
    <<[dens |-> StarDens(<<LongLen, MaxLen - 2>>, 0), step |-> <<MaxStep, 1>>],
      [dens |-> StarDens(<<LongLen>>, 1), step |-> <<MaxStep>>],
      [dens |-> StarDens(<<LongLen>>, 2), step |-> <<MaxStep>>]>>

\* density1, by the status of the star's vsini measurement
Density1(vsini) ==
    CASE vsini = "nan" -> Densities[2]
      [] vsini = "zero" -> Densities[3]
      [] vsini = "valid" -> Densities[1]

\* the stars: a position and a residual sigma on the first observable; a valid
\* vsini is a well-measured position between the first two nodes of its axis
XRange == (0 - MaxOut * PosDen)..((LongLen - 1 + MaxOut) * PosDen)
Stars ==
    {[x |-> <<xn>>, s |-> <<sn>>, vsini |-> v] :
        xn \in XRange, sn \in 0..MaxSig, v \in {"nan", "zero"}}
    \cup {[x |-> <<xn, vn>>, s |-> <<sn, 0>>, vsini |-> "valid"] :
             xn \in XRange, sn \in 0..MaxSig, vn \in 0..PosDen}

InitStar ==
    /\ star \in Stars
    /\ sval = None
    /\ IdleGrid /\ IdleKernel /\ IdleHeap /\ IdleCalc /\ IdleCoarsen

EvaluateStar ==
    /\ star # None
    /\ sval = None
    /\ sval' = Evaluate(Density1(star.vsini), star.x, star.s)
    /\ UNCHANGED <<star, gridvars, kernvars, heapvars, likvars, llvars, corrvars, mgvars>>

NextStar == EvaluateStar

SpecStar == InitStar /\ [][NextStar]_vars

----------------------------------------------------------------------------
(* Specification SpecObs: the kernel and the density variant of one star *)

\* the number of rotational populations
NRot == 2

\* rows of ld.obs with two observables, each NaN or a number from -1 to 2 in
\* steps of 1/PosDen, and their residual standard deviations
ObsValues == {NaN} \cup {Num(v) : v \in Sentinel..(2 * PosDen)}
Rows ==
    {[row |-> <<a, b>>, sig |-> <<sa, sb>>] :
        a \in ObsValues, b \in ObsValues, sa \in {0, SigDen}, sb \in {0, SigDen}}

InitObs ==
    /\ star \in Rows
    /\ sval = None
    /\ IdleGrid /\ IdleKernel /\ IdleHeap /\ IdleCalc /\ IdleCoarsen

\* the kernel of the star, its background class, and its density in the
\* population k
ClassifyStar ==
    /\ star # None
    /\ sval = None
    /\ \E k \in 1..NRot :
          sval' = [kernel |-> StarKernels(star.row, star.sig),
                   back |-> BackMasks(star.row),
                   density1 |-> <<k, VariantIndex(star.row)>>]
    /\ UNCHANGED <<star, gridvars, kernvars, heapvars, likvars, llvars, corrvars, mgvars>>

NextObs == ClassifyStar

SpecObs == InitObs /\ [][NextObs]_vars

----------------------------------------------------------------------------
(* Specification SpecCorr: the correction loop of one star on one density *)

\* the number of dimensions of density1
CorrDim == 2

\* interpolants as dP_sigma leaves them: m samples at step * s[q], with the
\* changes of probability -(q^2)/100 or -q/100
CorrFits ==
    {[x |-> [q \in 1..m |-> <<TrialSigma(q - 1)[1], TrialSigma(q - 1)[2]>>],
      y |-> [q \in 1..m |-> <<0 - (IF sq THEN q * q ELSE q), 100>>]] :
        m \in {CubicMinPoints, NumSigmas}, sq \in BOOLEAN}

\* residual sigmas of a star, in units of the observable: below the first
\* sample, at the second and third samples, between two samples, at the last
\* of four and of nine samples, and beyond every sample
CorrSigmas ==
    {<<n, TrialSigma(0)[2]>> :
        n \in {0, TrialSigma(1)[1], TrialSigma(2)[1], TrialSigma(2)[1] + 1,
               TrialSigma(CubicMinPoints - 1)[1], TrialSigma(NumSigmas - 1)[1],
               TrialSigma(NumSigmas - 1)[1] + TrialSigma(0)[1]}}

InitCorr ==
    /\ corr \in {[correction |-> c, s |-> sg] :
                    c \in [1..CorrDim -> CorrFits \cup {None}],
                    sg \in [1..CorrDim -> CorrSigmas]}
    /\ cdp = [dps |-> <<>>]
    /\ IdleGrid /\ IdleKernel /\ IdleStar /\ IdleHeap /\ IdleLik /\ IdleLL /\ IdleCoarsen

\* one pass of the loop over j in range(density1.dim)
CorrectAxis ==
    /\ corr # None
    /\ Len(cdp.dps) < CorrDim
    /\ LET j == Len(cdp.dps)
       IN  cdp' = [dps |-> Append(cdp.dps, Leakage(corr.correction[j + 1], j, corr.s[j + 1]))]
    /\ UNCHANGED <<corr, gridvars, kernvars, starvars, heapvars, likvars, llvars, mgvars>>

NextCorr == CorrectAxis

SpecCorr == InitCorr /\ [][NextCorr]_vars

----------------------------------------------------------------------------
(* Specification SpecDP: dP_sigma on grids with every pattern of norm *)

\* two axes: a normalized one is long, with the ROI at its middle point, so
\* that four of the kernels fit for nsig = 1; one that is not normalized has
\* two points
DPAxis(st, nm) ==
    IF nm THEN Axis(LongLen, st, (LongLen - 1) \div 2, LongLen \div 2, TRUE)
    ELSE Axis(2, st, 0, 0, FALSE)
DPGrids ==
    {GridOf(<<DPAxis(st, nm[1]), DPAxis(MaxStep + 1 - st, nm[2])>>, c, level) :
        st \in 1..MaxStep, nm \in BOOLEAN \X BOOLEAN,
        c \in {1, 2, 3, (LongLen + 1) \div 2}, level \in 0..2}

InitDP ==
    /\ \E g \in DPGrids : IsGrid(g)
    /\ last = None
    /\ nconv = 0
    /\ IdleKernel /\ IdleStar /\ IdleHeap /\ IdleCalc /\ IdleCoarsen

FitCorrection ==
    /\ last = None
    /\ DoDPSigma

NextDP == FitCorrection

SpecDP == InitDP /\ [][NextDP]_vars

----------------------------------------------------------------------------
(* Specification SpecImpl: one convolution by one of the implementations *)

InitImpl ==
    /\ \E g \in ConvGrids : IsGrid(g)
    /\ last = None
    /\ nconv = 0
    /\ IdleKernel /\ IdleStar /\ IdleHeap /\ IdleCalc /\ IdleCoarsen

\* a call of the implementation name with a kernel built for the downsample
\* factor used (its half-width is a multiple of ds) and shorter than the axis;
\* the kernel is kept in last.val
ImplStep(name) ==
    /\ last = None
    /\ \E axis \in AxisArgs, ds \in 1..MaxDs :
          \E k \in Kernels({ds}) :
             /\ 2 * k.n < Len(obs[AxisPos(axis, dim)])
             /\ LET r == ConvolveBy(name, Self, axis, k, ds)
                IN  /\ SetGrid(r.g)
                    /\ last' = Op(name, axis, All, k.n, ds, r.exc, k)
    /\ nconv' = nconv + 1
    /\ UNCHANGED <<kernvars, starvars, heapvars, likvars, llvars, corrvars, mgvars>>

ImplConvolve == ImplStep("convolve")
ImplConvolveNumpy == ImplStep("convolve_numpy")
ImplConvolveDownsample == ImplStep("convolve_downsample")

NextImpl ==
    \/ ImplConvolve
    \/ ImplConvolveNumpy
    \/ ImplConvolveDownsample

SpecImpl == InitImpl /\ [][NextImpl]_vars

----------------------------------------------------------------------------
(* Specification SpecCopy: a Grid, its copy, and operations on either *)

\* an operation starts only while the heap holds fewer objects than this
MaxHeap == 22

\* a Grid constructed from new arrays and lists
HeapOf(g) ==
    LET n == Len(g.obs)
    IN  HGridInit(<<g.dens>> \o g.obs \o <<[i \in 1..n |-> 1 + i], g.ROI, g.norm>>,
                  1, n + 2, n + 3, n + 4)

HeapGrids ==
    {GridOf(<<Axis(MaxLen, 1, 1, 0, nm[1]), Second(1, nm[2])>>, 2, 1) :
        nm \in BOOLEAN \X BOOLEAN}

InitCopy ==
    /\ \E g \in HeapGrids : heap = HeapOf(g).h /\ orig = HeapOf(g).o
    /\ cpy = None
    /\ IdleGrid /\ IdleKernel /\ IdleStar /\ IdleCalc /\ IdleCoarsen

\* the last operation: its name, the object it was called on, and the values
\* of the original and of the copy before it
HOp(name, on, axis, exc) ==
    [op |-> name, on |-> on, axis |-> axis, exc |-> exc,
     pre |-> Deref(heap, orig),
     cpre |-> IF cpy = None THEN None ELSE Deref(heap, cpy)]

HeapFrame ==
    UNCHANGED <<dens, obs, step, ROI, norm, correction, dim, nconv,
                kernvars, starvars, likvars, llvars, corrvars, mgvars>>

CopyGrid ==
    /\ cpy = None /\ Len(heap) < MaxHeap
    /\ LET c == HCopy(heap, orig)
       IN  /\ c.exc = ""
           /\ heap' = c.h /\ cpy' = c.o
    /\ last' = HOp("copy", "self", 0, "")
    /\ UNCHANGED orig
    /\ HeapFrame

NormalizeOrig ==
    /\ Len(heap) < MaxHeap
    /\ LET r == HNormalize(heap, orig)
       IN  /\ heap' = r.h /\ orig' = r.o
           /\ last' = HOp("normalize", "self", 0, r.exc)
    /\ UNCHANGED cpy
    /\ HeapFrame

IntegrateCopy ==
    /\ cpy # None /\ Len(heap) < MaxHeap
    /\ \E name \in {"integrate", "integrate_lower", "integrate_upper", "marginalize"},
          axis \in 0..(cpy.dim - 1) :
          LET roi == heap[cpy.ROI][AxisPos(axis, cpy.dim)]
              r == HIntegrate(heap, cpy, NamedRegion(name, roi), axis)
          IN  /\ heap' = r.h /\ cpy' = r.o
              /\ last' = HOp(name, "copy", axis, r.exc)
    /\ UNCHANGED orig
    /\ HeapFrame

IntegrateRonCopy ==
    /\ cpy # None /\ Len(heap) < MaxHeap
    /\ LET r == HIntegrateRon(heap, cpy)
       IN  /\ heap' = r.h /\ cpy' = r.o
           /\ last' = HOp("integrate_ron", "copy", 0, r.exc)
    /\ UNCHANGED orig
    /\ HeapFrame

NormalizeCopy ==
    /\ cpy # None /\ Len(heap) < MaxHeap
    /\ LET r == HNormalize(heap, cpy)
       IN  /\ heap' = r.h /\ cpy' = r.o
           /\ last' = HOp("normalize", "copy", 0, r.exc)
    /\ UNCHANGED orig
    /\ HeapFrame

ConvolveCopy ==
    /\ cpy # None /\ Len(heap) < MaxHeap
    /\ \E axis \in 0..(cpy.dim - 1), ds \in 1..2 :
          \E k \in ConvKernels({1}, {1}, ds) :
             LET r == HConvolve(heap, cpy, axis, k, ds)
             IN  /\ heap' = r.h /\ cpy' = r.o
                 /\ last' = HOp("convolve", "copy", axis, r.exc)
    /\ UNCHANGED orig
    /\ HeapFrame

NextCopy ==
    \/ CopyGrid
    \/ NormalizeOrig
    \/ IntegrateCopy
    \/ IntegrateRonCopy
    \/ NormalizeCopy
    \/ ConvolveCopy

SpecCopy == InitCopy /\ [][NextCopy]_vars

----------------------------------------------------------------------------
(* Specification SpecQ: the maximization in q for one set of stars *)

\* at most MaxStars stars; fw in 0 .. MaxF and back in 1 .. MaxB, in one unit
MaxStars == 2
MaxF == 3
MaxB == 3

StarSets ==
    UNION {[1..n -> [f : 0..MaxF, b : 1..MaxB]] : n \in 1..MaxStars}

InitQ ==
    /\ fb \in {[stars |-> s] : s \in StarSets}
    /\ qmax = None
    /\ IdleGrid /\ IdleKernel /\ IdleStar /\ IdleHeap /\ IdleLL /\ IdleCorr /\ IdleCoarsen

SelectQmax ==
    /\ fb # None /\ qmax = None
    /\ qmax' \in Qmax(fb.stars)
    /\ UNCHANGED <<fb, gridvars, kernvars, starvars, heapvars, llvars, corrvars, mgvars>>

NextQ == SelectQmax

SpecQ == InitQ /\ [][NextQ]_vars

----------------------------------------------------------------------------
(* Specification SpecLL: the loop over the grid of w0 and w1 *)

\* ll is np.full(..., np.nan) before the loop: no cell is assigned
InitLL ==
    /\ wi = 0 /\ wj = 0
    /\ ll = {}
    /\ IdleGrid /\ IdleKernel /\ IdleStar /\ IdleHeap /\ IdleLik /\ IdleCorr /\ IdleCoarsen

\* one pass of the body of `for i in range(len(w0)): for j in
\* range(len(w1) - i)`: the cell ll[i, j] is assigned; it is recorded with the
\* sign of the weight 1 - wi0 - wi1 of the middle population in fw
LLCell ==
    /\ wi >= 0 /\ wi < NumW
    /\ ll' = ll \cup {<<wi, wj, MiddleWeightSign(wi, wj)>>}
    /\ IF wj + 1 < NumW - wi
       THEN wj' = wj + 1 /\ wi' = wi
       ELSE wj' = 0 /\ wi' = wi + 1
    /\ UNCHANGED <<gridvars, kernvars, starvars, heapvars, likvars, corrvars, mgvars>>

NextLL == LLCell

SpecLL == InitLL /\ [][NextLL]_vars

----------------------------------------------------------------------------
(* Claims about sequences of Grid operations, checked under Spec *)

RemovesOneAxis ==
    /\ last # None
    /\ last.op \in {"integrate", "integrate_lower", "integrate_upper", "marginalize"}

\* C10: after any sequence of Grid operations dim, len(obs), len(step),
\* len(norm) and len(correction) are equal, and an operation that removes an
\* axis removes the same axis from obs, step, ROI, norm and correction.
C10_LengthsAgree ==
    /\ dim = Len(obs) /\ dim = Len(step) /\ dim = Len(norm)
    /\ dim = Len(correction)
    /\ RemovesOneAxis =>
          LET p == AxisPos(last.axis, last.pre.dim)
          IN  /\ dim = last.pre.dim - 1
              /\ obs = RemoveAt(last.pre.obs, p)
              /\ step = RemoveAt(last.pre.step, p)
              /\ norm = RemoveAt(last.pre.norm, p)
              /\ correction = RemoveAt(last.pre.correction, p)
    /\ (last # None /\ last.op = "integrate_ron") => dim = 0

\* the first of two axes is removed after a convolution shortened it, and the
\* axis that is left is the one that was second, with its own norm flag
C10_Witness ==
    /\ RemovesOneAxis
    /\ nconv > 0
    /\ last.axis = 0 /\ last.pre.dim = 2 /\ dim = 1
    /\ last.pre.norm[1] # last.pre.norm[2]
    /\ norm = <<last.pre.norm[2]>>
    /\ obs = <<last.pre.obs[2]>>

\* C11: each integrate, integrate_lower, integrate_upper or marginalize on a
\* grid with dim >= 1 decreases dim by exactly 1 (and dens loses one axis); no
\* Grid operation increases dim; integrate_ron ends after exactly dim passes of
\* its loop with dim = 0 and a 0-dimensional dens.
C11_DimOnlyDecreases ==
    /\ [](RemovesOneAxis =>
             /\ last.pre.dim >= 1
             /\ dim = last.pre.dim - 1
             /\ Len(dens.shape) = Len(last.pre.dens.shape) - 1)
    /\ []((last # None /\ last.op = "integrate_ron") =>
             /\ last.n = last.pre.dim
             /\ dim = 0
             /\ dens.shape = <<>>)
    /\ [][dim' <= dim]_vars

\* integrate_ron on a grid of two axes: two passes, a scalar is left
C11_Witness ==
    /\ last # None /\ last.op = "integrate_ron"
    /\ last.pre.dim = 2 /\ last.n = 2
    /\ dim = 0 /\ dens.shape = <<>>
    /\ obs = <<>>

----------------------------------------------------------------------------
(* Claims about integration and normalization, checked under SpecInt *)

\* the sum of the numerators of an array over a set of index tuples
RECURSIVE SumNum(_, _)
SumNum(num, S) ==
    IF S = {} THEN 0
    ELSE LET t == CHOOSE t \in S : TRUE
         IN  num[t] + SumNum(num, S \ {t})

\* the points of a grid whose coordinate lies in the closed ROI on every axis
\* flagged norm, any point on the other axes
RonPoints(g) ==
    {t \in Indices(g.dens.shape) :
        \A k \in 1..g.dim :
            g.norm[k] => /\ g.ROI[k][1] <= g.obs[k][t[k]]
                         /\ g.obs[k][t[k]] <= g.ROI[k][2]}
Mass(g) == SumNum(g.dens.num, RonPoints(g))

Normalized == last # None /\ last.op = "normalize" /\ last.exc = ""

\* C1: after normalize() of a grid whose mass over its region of normalization
\* is positive, the sum of dens over the points in the closed ROI on every axis
\* flagged norm, and over all points of the other axes, is 1, and that is the
\* value integrate_ron() produces on a copy of the grid.
C1_NormalizedMassIsOne ==
    (Normalized /\ last.pre.dens.den > 0 /\ Mass(last.pre) > 0) =>
        /\ dens.den > 0
        /\ Mass(Self) = dens.den
        /\ LET c == GridCopy(Self)
           IN  /\ c.exc = ""
               /\ Scalar(IntegrateRon(c.g).dens) = <<dens.den, dens.den>>

\* two axes, the first normalized on an ROI that leaves out points of positive
\* density, the second on all its points; the mass was not 1 before
C1_Witness ==
    /\ Normalized
    /\ last.pre.dim = 2 /\ last.pre.norm = <<TRUE, FALSE>>
    /\ Mass(last.pre) > last.pre.dens.den
    /\ Mass(last.pre) < SumNum(last.pre.dens.num, Indices(last.pre.dens.shape))
    /\ Mass(Self) = dens.den
    /\ dens # last.pre.dens

\* the region the last integration was over
LastRegion ==
    LET r == last.pre.ROI[AxisPos(last.axis, last.pre.dim)]
    IN  CASE last.op = "integrate" -> last.region
          [] last.op = "integrate_lower" -> <<NegInf, Fin(r[1])>>
          [] last.op = "integrate_upper" -> <<Fin(r[2]), PosInf>>
          [] last.op = "marginalize" -> <<NegInf, PosInf>>

\* the indices of the integrated axis whose coordinate is in the closed region
LastCovered ==
    LET o == last.pre.obs[AxisPos(last.axis, last.pre.dim)]
    IN  {i \in 1..Len(o) :
            GeBound(o[i], LastRegion[1]) /\ LeBound(o[i], LastRegion[2])}

\* twice the trapezoidal weight of index i: 2 inside the region, 1 at its first
\* and its last point, 0 outside
TwiceTrapezoidWeight(i) ==
    IF i \notin LastCovered THEN 0
    ELSE IF i = SetMin(LastCovered) \/ i = SetMax(LastCovered) THEN 1
    ELSE 2

\* C2 (as stated): integrate(region, axis) sums along the axis with weight 1
\* strictly inside the region, 1/2 at the two boundary points of the region and
\* 0 outside.
C2_TrapezoidalWeights ==
    RemovesOneAxis =>
        LET p == AxisPos(last.axis, last.pre.dim)
            a == last.pre.dens
        IN  \A t \in Indices(dens.shape) :
                2 * dens.num[t] =
                    SumSeq([i \in 1..a.shape[p] |->
                               TwiceTrapezoidWeight(i) * a.num[InsertAt(t, p, i)]])

\* C2 (amended): integrate(region, axis) sums along the axis with weight 1 at
\* every point whose coordinate lies in the closed region [lo, hi], its first
\* and last point included, and weight 0 outside; the axis is removed.
C2_UnitWeights ==
    RemovesOneAxis =>
        LET p == AxisPos(last.axis, last.pre.dim)
            a == last.pre.dens
        IN  /\ dens.shape = RemoveAt(a.shape, p)
            /\ dens.den = a.den
            /\ \A t \in Indices(dens.shape) :
                  dens.num[t] =
                      SumNum(a.num, {InsertAt(t, p, i) : i \in LastCovered})

\* a finite region with both bounds on grid points of positive density, points
\* strictly inside it and points outside it
C2_Witness ==
    /\ last # None /\ last.op = "integrate"
    /\ LET p == AxisPos(last.axis, last.pre.dim)
           o == last.pre.obs[p]
           a == last.pre.dens
       IN  /\ Cardinality(LastCovered) >= 3
           /\ Cardinality(LastCovered) < Len(o)
           /\ o[SetMin(LastCovered)] = last.region[1].v
           /\ o[SetMax(LastCovered)] = last.region[2].v
           /\ \E t \in Indices(dens.shape) :
                 /\ a.num[InsertAt(t, p, SetMin(LastCovered))] > 0
                 /\ a.num[InsertAt(t, p, SetMax(LastCovered))] > 0
                 /\ dens.num[t] =
                       SumNum(a.num, {InsertAt(t, p, i) : i \in LastCovered})

----------------------------------------------------------------------------
(* Claims about check_roi, checked under SpecRoi *)

Checked == last # None /\ last.op = "check_roi"

\* the positions (1-based) of the checked axis whose coordinate lies in the
\* closed ROI of that axis
RoiPositions ==
    LET p == AxisPos(last.axis, dim)
    IN  {i \in 1..Len(obs[p]) :
            ROI[p][1] <= obs[p][i] /\ obs[p][i] <= ROI[p][2]}

C5_WitnessFits ==
    /\ Checked /\ last.exc = "" /\ last.val = TRUE
    /\ last.n > 0
    /\ LET L == Len(obs[AxisPos(last.axis, dim)])
       IN  /\ SetMax(RoiPositions) - 1 + last.n = L - 1
           /\ SetMin(RoiPositions) - 1 - last.n = 0

----------------------------------------------------------------------------
(* Claims about convolve, checked under SpecConv *)

Convolved == last # None /\ last.op = "convolve" /\ last.exc = ""

\* the axis convolved is longer than the kernel
LongerThanKernel ==
    Len(last.pre.obs[AxisPos(last.axis, last.pre.dim)]) > 2 * last.n

\* kernel.n coordinates are dropped from each end and every ds-th of the rest
\* is kept, from index kernel.n on; obs and dens have ceil((L - 2n)/ds) entries
\* on the axis; the step is multiplied by ds and is the spacing of the
\* coordinates kept; the other axes are as before
ConvolveOutcome ==
    LET pre == last.pre
        p == AxisPos(last.axis, pre.dim)
        L == Len(pre.obs[p])
        n == last.n
        ds == last.ds
    IN  /\ dim = pre.dim
        /\ Len(obs[p]) = CeilDiv(L - 2 * n, ds)
        /\ dens.shape[p] = CeilDiv(L - 2 * n, ds)
        /\ \A q \in 1..Len(obs[p]) : obs[p][q] = pre.obs[p][n + (q - 1) * ds + 1]
        /\ step[p] = pre.step[p] * ds
        /\ \A q \in 1..(Len(obs[p]) - 1) : obs[p][q + 1] - obs[p][q] = step[p]
        /\ \A k \in (1..dim) \ {p} :
              /\ obs[k] = pre.obs[k]
              /\ step[k] = pre.step[k]
              /\ dens.shape[k] = pre.dens.shape[k]

\* C6: convolve(axis, kernel, ds) on an axis of length L > 2*kernel.n drops
\* exactly kernel.n coordinates from each end and keeps every ds-th remaining
\* one, so that obs[axis] and dens on that axis have ceil((L - 2*kernel.n)/ds)
\* entries; step[axis] is multiplied by ds; the other axes are unchanged.
C6_DropsAndDecimates ==
    (Convolved /\ LongerThanKernel) => ConvolveOutcome

\* the part of C6 that holds: the same for a kernel of half-width at least 1
C6_PositiveHalfWidth ==
    (Convolved /\ LongerThanKernel /\ last.n >= 1) => ConvolveOutcome

\* a kernel of half-width 0 leaves no coordinate at all: [0:-0] is empty
C6_EmptyAtZeroHalfWidth ==
    (Convolved /\ last.n = 0) =>
        /\ obs[AxisPos(last.axis, dim)] = <<>>
        /\ dens.shape[AxisPos(last.axis, dim)] = 0

\* the kernel of half-width 0 with the one weight 1 (sigma = -1/SigDen),
\* without downsampling: every coordinate of the axis is dropped
C6_Witness ==
    /\ Convolved /\ LongerThanKernel
    /\ last.n = 0 /\ last.ds = 1 /\ ~last.val
    /\ Len(last.pre.obs[AxisPos(last.axis, dim)]) >= MaxLen
    /\ obs[AxisPos(last.axis, dim)] = <<>>

\* a convolution that drops points at both ends and keeps every other one of
\* an odd number of points left, the last of them included
C6_WitnessPositive ==
    /\ Convolved /\ LongerThanKernel
    /\ last.n >= 1 /\ last.ds = 2
    /\ Len(obs[AxisPos(last.axis, dim)]) >= 2
    /\ (Len(last.pre.obs[AxisPos(last.axis, dim)]) - 2 * last.n) % 2 = 1
    /\ ConvolveOutcome

----------------------------------------------------------------------------
(* Claims about the evaluation of a star, checked under SpecStar *)

Evaluated == star # None /\ sval # None

\* the axes of the star's density, and the number of nodes on axis j
StarAxes == 1..Len(star.x)
Nodes(j) == Density1(star.vsini).dens.shape[j]

\* every observable of the star is narrow, and both neighbouring nodes of its
\* position exist on every axis
AllNarrowInside ==
    \A j \in StarAxes :
        /\ 2 * star.s[j] < SigDen
        /\ star.x[j] \div PosDen >= 0
        /\ star.x[j] \div PosDen + 1 <= Nodes(j) - 1

\* PosDen^dim times the linear interpolation of the density at the position of
\* the star: the node floor(x) + b on axis j has weight floor(x) + 1 - x for
\* b = 0 and x - floor(x) for b = 1
Interpolation ==
    LET d == Density1(star.vsini)
        x0(j) == star.x[j] \div PosDen
        Wt(j, b) == IF b = 0 THEN (x0(j) + 1) * PosDen - star.x[j]
                    ELSE star.x[j] - x0(j) * PosDen
        Corner(c) == SeqProd([j \in StarAxes |-> Wt(j, c[j])])
                        * d.dens.num[[j \in StarAxes |-> x0(j) + c[j] + 1]]
    IN  SumNum([c \in [StarAxes -> 0..1] |-> Corner(c)], [StarAxes -> 0..1])

\* C3: for observables whose residual standard deviation is below half a grid
\* step the evaluation interpolates the density linearly at the star's
\* fractional position x: on each such axis the result is
\* (floor(x)+1-x)*dens[floor(x)] + (x-floor(x))*dens[floor(x)+1] (scaled by the
\* product of the steps).
C3_DeltaKernelInterpolates ==
    (Evaluated /\ AllNarrowInside) =>
        LET d == Density1(star.vsini)
        IN  /\ sval.exc = ""
            /\ sval.num * (Pow(PosDen, Len(star.x)) * d.dens.den * SeqProd(d.step))
                  = Interpolation * sval.den

\* a star half-way between two nodes of different density: the value is the
\* density at the lower node alone
C3_Witness ==
    /\ Evaluated /\ AllNarrowInside
    /\ Len(star.x) = 1
    /\ star.x[1] % PosDen # 0
    /\ LET d == Density1(star.vsini)
           x0 == star.x[1] \div PosDen
       IN  /\ d.dens.num[<<x0 + 1>>] # d.dens.num[<<x0 + 2>>]
           /\ sval.exc = ""
           /\ sval.num * d.dens.den * SeqProd(d.step) = d.dens.num[<<x0 + 1>>] * sval.den

\* the kernel support required on axis j: floor(x - nsig*s) .. ceil(x + nsig*s)
SupportLow(j) ==
    (star.x[j] * SigDen - StarNsig * star.s[j] * PosDen) \div (PosDen * SigDen)
SupportHigh(j) ==
    -((-(star.x[j] * SigDen + StarNsig * star.s[j] * PosDen)) \div (PosDen * SigDen))
SupportOutside ==
    \E j \in StarAxes : SupportLow(j) < 0 \/ SupportHigh(j) > Nodes(j) - 1

\* C4: when the kernel support required for a star on some axis extends below
\* index 0 or above the last index of that axis, the evaluation fails with
\* ConvolutionException, and returns no value.
C4_SupportOutsideRaises ==
    (Evaluated /\ SupportOutside) => sval.exc = "ConvolutionException"

\* a star below the first node, with a narrow kernel: the slice wraps around to
\* the far end of the axis and a value is returned
C4_Witness ==
    /\ Evaluated /\ SupportOutside
    /\ Len(star.x) = 1 /\ 2 * star.s[1] < SigDen
    /\ star.x[1] \div PosDen < 0 - 1
    /\ sval.exc = ""
    /\ LET d == Density1(star.vsini)
       IN  sval.num * d.dens.den * SeqProd(d.step)
              = d.dens.num[<<Nodes(1) + star.x[1] \div PosDen + 1>>] * sval.den

\* a star beyond the last node, with a wide kernel: the slice is cut to the
\* last node, which numpy broadcasts along the kernel, and a value is returned
C4_WitnessBroadcast ==
    /\ Evaluated /\ SupportOutside
    /\ Len(star.x) = 1 /\ 2 * star.s[1] >= SigDen
    /\ sval.exc = ""
    /\ LET d == Density1(star.vsini)
       IN  sval.num * d.dens.den * SeqProd(d.step)
              = d.dens.num[<<Nodes(1)>>] * sval.den

\* a wide kernel that fits the grid is evaluated
C4_WitnessInside ==
    /\ Evaluated /\ ~SupportOutside
    /\ 2 * star.s[1] >= SigDen
    /\ sval.exc = "" /\ sval.num > 0

----------------------------------------------------------------------------
(* Claims about a Grid and its copy, checked under SpecCopy *)

Original == Deref(heap, orig)

NormalizedOrig ==
    /\ last # None /\ last.op = "normalize" /\ last.on = "self"
    /\ last.exc = ""

OnCopy == last # None /\ (last.on = "copy" \/ last.op = "copy")

\* C12: after normalize() returns, the grid's dim, obs, step, ROI, norm and
\* correction and the shape of dens are what they were before the call, and
\* every entry of dens is its previous value divided by one scalar, the mass
\* over the region of normalization; copy() and the operations applied to the
\* copy leave the original's dens, obs, step, ROI, norm and correction (and
\* dim) as they were.
C12_CopyIsolates ==
    /\ (NormalizedOrig /\ last.pre.dens.den > 0) =>
          /\ Original.dim = last.pre.dim
          /\ Original.obs = last.pre.obs
          /\ Original.step = last.pre.step
          /\ Original.ROI = last.pre.ROI
          /\ Original.norm = last.pre.norm
          /\ Original.correction = last.pre.correction
          /\ Original.dens.shape = last.pre.dens.shape
          /\ \A t \in Indices(last.pre.dens.shape) :
                Original.dens.num[t] * Mass(last.pre)
                   = last.pre.dens.num[t] * Original.dens.den
    /\ OnCopy => Original = last.pre

\* normalize() of the original changed its dens and nothing else, while a copy
\* taken before exists and still holds the values from before
C12_Witness ==
    /\ NormalizedOrig
    /\ cpy # None
    /\ Original.dens # last.pre.dens
    /\ Original.obs = last.pre.obs /\ Original.dim = 2
    /\ Deref(heap, cpy).dens = last.pre.dens
    /\ Mass(last.pre) > last.pre.dens.den

\* the copy was convolved and then integrated to a scalar: its lists are empty
\* and the original still has its two axes
C12_WitnessCopy ==
    /\ OnCopy /\ last.op = "integrate_ron"
    /\ cpy.dim = 0 /\ Deref(heap, cpy).obs = <<>>
    /\ last.cpre.step # last.pre.step
    /\ Original.dim = 2 /\ Len(Original.obs) = 2
    /\ Original = last.pre

----------------------------------------------------------------------------
(* Claims about the maximization in q, checked under SpecQ *)

Selected == fb # None /\ qmax # None

\* the sign of the derivative of the log-likelihood sum_i log(q*f_i +
\* (1 - q)*b_i) at q = k/QDen: sum_i (f_i - b_i) / (q*f_i + (1 - q)*b_i),
\* which is -infinity at q = 1 when some f_i is 0
Slope(k) ==
    IF k = QDen /\ \E i \in 1..Len(fb.stars) : fb.stars[i].f = 0 THEN <<0 - 1, 1>>
    ELSE FracSum([i \in 1..Len(fb.stars) |->
                    <<(fb.stars[i].f - fb.stars[i].b) * QDen,
                      k * fb.stars[i].f + (QDen - k) * fb.stars[i].b>>])

\* C13: for stars with positive background densities qmax is 0 when f_i <
\* back_i for every star and 1 when f_i > back_i for every star; in general
\* qmax is 0 if the derivative of the log-likelihood is <= 0 at both ends,
\* else 1 if it is >= 0 at both ends, and otherwise a zero of the derivative
\* inside [0, 1].
C13_QmaxAtTheBoundaries ==
    Selected =>
        /\ (\A i \in 1..Len(fb.stars) : fb.stars[i].f < fb.stars[i].b) => qmax.q = "0"
        /\ (\A i \in 1..Len(fb.stars) : fb.stars[i].f > fb.stars[i].b) => qmax.q = "1"
        /\ IF Slope(0)[1] <= 0 /\ Slope(QDen)[1] <= 0 THEN qmax.q = "0"
           ELSE IF Slope(0)[1] >= 0 /\ Slope(QDen)[1] >= 0 THEN qmax.q = "1"
           ELSE /\ qmax.exc = "" /\ qmax.q = "root"
                /\ 0 <= qmax.lo /\ qmax.hi <= QDen
                /\ Slope(qmax.lo)[1] >= 0 /\ Slope(qmax.hi)[1] <= 0

\* two stars, one denser than the background and one less dense: the maximum
\* is a zero of the derivative strictly inside [0, 1]
C13_Witness ==
    /\ Selected /\ Len(fb.stars) = 2
    /\ fb.stars[1].f > fb.stars[1].b /\ fb.stars[2].f < fb.stars[2].b /\ fb.stars[2].f > 0
    /\ qmax.q = "root" /\ qmax.lo > 0 /\ qmax.hi < QDen

\* every star is denser than the background, and qmax is 1
C13_WitnessOne ==
    /\ Selected /\ Len(fb.stars) = 2
    /\ \A i \in 1..2 : fb.stars[i].f > fb.stars[i].b
    /\ qmax.q = "1"

\* every star is less dense than the background, one has no density at all,
\* and qmax is 0
C13_WitnessZero ==
    /\ Selected /\ Len(fb.stars) = 2
    /\ fb.stars[1].f = 0 /\ fb.stars[2].f > 0 /\ fb.stars[2].f < fb.stars[2].b
    /\ qmax.q = "0"

\* root_scalar was called
RootFinderInvoked == Selected /\ qmax.q \in {"root", "none"}

\* C18: whenever the root-finder is invoked, dlogL is strictly positive at
\* q = 0 and strictly negative at q = 1, so that [0, 1] brackets a root and
\* root_scalar returns one; dlogL is never negative at 0 and positive at 1,
\* for any stars with f_i >= 0 and back_i > 0.
C18_BracketIsValid ==
    Selected =>
        LET d0 == DlogL(0, fb.stars)
            d1 == DlogL(QDen, fb.stars)
        IN  /\ d0[2] > 0 /\ d1[2] > 0
            /\ RootFinderInvoked =>
                  /\ d0[1] > 0 /\ d1[1] < 0
                  /\ qmax.exc = "" /\ qmax.q = "root"
            /\ ~(d0[1] < 0 /\ d1[1] > 0)

\* the root-finder is invoked for a star without any cluster density (qi = 1,
\* where the clamp of q to 1 - eps keeps dlogL finite) next to a dense one
C18_Witness ==
    /\ RootFinderInvoked /\ qmax.exc = ""
    /\ \E i \in 1..Len(fb.stars) : fb.stars[i].f = 0
    /\ DlogL(0, fb.stars)[1] > 0
    /\ DlogL(QDen, fb.stars)[1] < 0
    /\ DlogL(QDen, fb.stars)[2] > 0

----------------------------------------------------------------------------
(* Claims about the loop over w0 and w1, checked under SpecLL *)

LoopDone == wi = NumW

Computed == {<<c[1], c[2]>> : c \in ll}

\* the loop assigns exactly the cells with i + j <= len(w0) - 1, and these are
\* the cells whose sum wi0 + wi1, in doubles, does not exceed 1
C14_CellsOfTheTriangle ==
    LoopDone =>
        \A i \in 0..(NumW - 1), j \in 0..(NumW - 1) :
            /\ (<<i, j>> \in Computed) <=> (i + j <= NumW - 1)
            /\ (<<i, j>> \in Computed) <=> ~SumAboveOne(i, j)

\* C14: after the loop ll has been computed for exactly the index pairs with
\* w0[i] + w1[j] <= 1 and is NaN for every other pair; at every computed cell
\* the weight 1 - w0 - w1 of the middle population is >= 0.
C14_FeasibleCellsOnly ==
    /\ C14_CellsOfTheTriangle
    /\ \A c \in ll : c[3] >= 0

\* the cell i = 5, j = 95: w0[5] = 0.05, w1[95] = 0.9500000000000001, and the
\* middle weight 1 - 0.05 - 0.9500000000000001 is -1.1e-16
C14_Witness ==
    /\ wi >= 0
    /\ <<5, 95, 0 - 1>> \in ll
    /\ ~SumAboveOne(5, 95)

----------------------------------------------------------------------------
(* Claims about the kernel and the density variant of a star, under SpecObs *)

Classified == star # None /\ sval # None
LastObs == star.row[Len(star.row)]

\* the observables of the star that are neither NaN nor the sentinel
PresentAxes == {j \in 1..Len(star.row) : ~star.row[j].nan /\ star.row[j].v # Sentinel}

\* C15: in every rotational population a star whose last observable is NaN is
\* evaluated on the variant of index 1, one whose last observable is the
\* sentinel -1 on the variant of index 2, any other star on the variant of
\* index 0; the kernel and the slice tuple of a star have as many dimensions
\* as the star has present observables, and these dimensions are those of the
\* present observables; the background density classifies the stars the same
\* way.
C15_VariantByLastObservable ==
    Classified =>
        /\ sval.density1[1] \in 1..NRot
        /\ LastObs.nan => sval.density1[2] = 1
        /\ (~LastObs.nan /\ LastObs.v = Sentinel) => sval.density1[2] = 2
        /\ (~LastObs.nan /\ LastObs.v # Sentinel) => sval.density1[2] = 0
        /\ Len(sval.kernel.kshape) = Cardinality(PresentAxes)
        /\ Len(sval.kernel.slc) = Cardinality(PresentAxes)
        /\ {sval.kernel.axes[q] : q \in 1..Len(sval.kernel.axes)} = PresentAxes
        /\ sval.back = {"mn"} <=> sval.density1[2] = 1
        /\ sval.back = {"m0"} <=> sval.density1[2] = 2
        /\ sval.back = {"mv"} <=> sval.density1[2] = 0

\* a star without vsini in the second population: a kernel on the first
\* observable alone, on the density of index 1
C15_Witness ==
    /\ Classified
    /\ star.row = <<Num(1), NaN>>
    /\ sval.density1 = <<2, 1>>
    /\ sval.kernel.axes = <<1>>
    /\ sval.kernel.exc = ""
    /\ sval.back = {"mn"}

\* a star at the vsini = 0 boundary
C15_WitnessSentinel ==
    /\ Classified
    /\ star.row = <<Num(1), Num(Sentinel)>>
    /\ sval.density1[2] = 2
    /\ sval.kernel.axes = <<1>>
    /\ sval.back = {"m0"}

\* a star with both observables
C15_WitnessFull ==
    /\ Classified
    /\ star.row = <<Num(1), Num(2)>>
    /\ sval.density1[2] = 0
    /\ sval.kernel.axes = <<1, 2>>
    /\ sval.back = {"mv"}

\* a star without any present observable has no kernel
C15_WitnessNoKernel ==
    /\ Classified
    /\ star.row = <<NaN, Num(Sentinel)>>
    /\ sval.kernel.exc = "TypeError"
    /\ sval.kernel.axes = <<>>

----------------------------------------------------------------------------
(* Claims about the correction of the normalization, checked under SpecCorr *)

\* the largest sample of the fit of axis j (the samples increase)
LargestSample(j) == corr.correction[j + 1].x[Len(corr.correction[j + 1].x)]
Corrected(j) ==
    /\ corr # None /\ cdp # None
    /\ j < Len(cdp.dps)
    /\ corr.correction[j + 1] # None

\* the line through the last two samples of the fit of axis j, at s: its
\* value times the denominators
OnTheLine(j, s, dp) ==
    LET spl == corr.correction[j + 1]
        m == Len(spl.x)
    IN  \* (dp - y0) * (x1 - x0) = (s - x0) * (y1 - y0)
        FracMul(FracAdd(dp, FracNeg(spl.y[m])), FracAdd(spl.x[m - 1], FracNeg(spl.x[m])))
           = FracMul(FracAdd(s, FracNeg(spl.x[m])), FracAdd(spl.y[m - 1], FracNeg(spl.y[m])))

\* C16: where an interpolant exists for an axis j, dp is taken from the
\* interpolant for every sigma not above the largest fitted sample, and from
\* the line through the last two samples only for sigma above the largest
\* fitted sample, for every axis index j.
C16_InterpolantWithinTheFit ==
    \A j \in 0..(CorrDim - 1) :
        Corrected(j) =>
            /\ FracLe(corr.s[j + 1], LargestSample(j)) => cdp.dps[j + 1].how = "spline"
            /\ ~FracLe(corr.s[j + 1], LargestSample(j)) =>
                  /\ cdp.dps[j + 1].how = "linear"
                  /\ OnTheLine(j, corr.s[j + 1], cdp.dps[j + 1].dp)

\* the part that holds: a sigma beyond the largest sample is extrapolated along
\* the line through the last two samples, and a sigma not above the sample of
\* index j is given to the interpolant
C16_ExtrapolatesBeyond ==
    \A j \in 0..(CorrDim - 1) :
        Corrected(j) =>
            /\ ~FracLe(corr.s[j + 1], LargestSample(j)) =>
                  /\ cdp.dps[j + 1].how = "linear"
                  /\ OnTheLine(j, corr.s[j + 1], cdp.dps[j + 1].dp)
            /\ FracLe(corr.s[j + 1], corr.correction[j + 1].x[j + 1]) =>
                  cdp.dps[j + 1].how = "spline"

\* a sigma at the third of nine samples on axis 1: extrapolated, to 21/100
\* where the interpolant has -9/100
C16_Witness ==
    /\ Corrected(1)
    /\ Len(corr.correction[2].x) = NumSigmas
    /\ corr.correction[2].y[3] = <<0 - 9, 100>>
    /\ corr.s[2] = corr.correction[2].x[3]
    /\ cdp.dps[2].how = "linear"
    /\ cdp.dps[2].dp = <<21, 100>>

\* a sigma beyond the largest sample
C16_WitnessBeyond ==
    /\ Corrected(0)
    /\ ~FracLe(corr.s[1], LargestSample(0))
    /\ cdp.dps[1].how = "linear"

----------------------------------------------------------------------------
(* Claims about dP_sigma, checked under SpecDP *)

Fitted == last # None /\ last.op = "dP_sigma"

\* the working copy the fit of a grid is made on: a copy with the dimensions
\* that are not normalized marginalized, from the last one down
RECURSIVE WorkingCopy(_, _, _)
WorkingCopy(self, g, i) ==
    IF i = 0 THEN g
    ELSE WorkingCopy(self, IF self.norm[i] THEN g ELSE Marginalize(g, i - 1), i - 1)

\* the axis of the working copy that holds the coordinates of dimension i
AxisOfDimension(self, i) == Cardinality({k \in 1..i : self.norm[k]})

\* the correction of the normalized dimension i: the fit of the changes of
\* mass under the kernels that fit on that axis of the working copy
CorrectionOf(self, i) ==
    LET t == Trials(WorkingCopy(self, GridCopy(self).g, Len(self.obs)),
                    AxisOfDimension(self, i), 0, last.n, <<>>)
    IN  IF t.exc # "" \/ Len(t.dp) < CubicMinPoints THEN [exc |-> "no fit"]
        ELSE IF Negligible(t.dp) THEN None
        ELSE Fit(self, i, t.dp)

OwnFieldsKept ==
    /\ dens = last.pre.dens /\ obs = last.pre.obs /\ step = last.pre.step
    /\ ROI = last.pre.ROI /\ norm = last.pre.norm /\ dim = last.pre.dim
    /\ \A i \in 1..Len(norm) : ~norm[i] => correction[i] = last.pre.correction[i]

\* C17: for every pattern of the norm flags and every normalized dimension i,
\* dP_sigma checks and convolves the axis of the working copy that holds the
\* coordinates of dimension i, with every dimension that is not normalized
\* (and no other) marginalized from the working copy, so that correction[i] is
\* the fit for dimension i; dens, obs, step, ROI, norm and dim of the grid are
\* unchanged and no other correction is assigned.
C17_FitsEveryNormalizedDimension ==
    Fitted =>
        /\ last.exc = ""
        /\ OwnFieldsKept
        /\ \A i \in 1..Len(norm) :
              norm[i] => correction[i] = CorrectionOf(last.pre, i - 1)

\* the part that holds: the fields of the grid other than correction are
\* unchanged in every case, and the fit is the one of the dimension when every
\* dimension is normalized or only the last one is not
C17_NormalizedBeforeTheOthers ==
    Fitted =>
        /\ OwnFieldsKept
        /\ (norm[1] /\ Len(norm) = 2) =>
              /\ last.exc = ""
              /\ \A i \in 1..Len(norm) :
                    norm[i] => correction[i] = CorrectionOf(last.pre, i - 1)

\* the first dimension is not normalized and the second is: the working copy
\* has one axis, and check_roi(1, kernel) raises IndexError
C17_Witness ==
    /\ Fitted
    /\ norm = <<FALSE, TRUE>>
    /\ last.exc = "IndexError"
    /\ correction = <<None, None>>
    /\ CorrectionOf(last.pre, 1) # None
    /\ "x" \in DOMAIN CorrectionOf(last.pre, 1)

\* both dimensions are normalized: two fits
C17_WitnessBoth ==
    /\ Fitted
    /\ norm = <<TRUE, TRUE>>
    /\ last.exc = ""
    /\ correction[1] # None /\ correction[2] # None
    /\ Len(correction[1].x) >= CubicMinPoints

----------------------------------------------------------------------------
(* Claims about the three regional integrals, checked under SpecInt *)

Marginalized == last # None /\ last.op = "marginalize"

\* the three regional integrals of the grid before the call, each on a copy
LowerOf == IntegrateLower(GridCopy(last.pre).g, last.axis)
MiddleOf ==
    Integrate(GridCopy(last.pre).g,
              RoiRegion(last.pre.ROI[AxisPos(last.axis, last.pre.dim)]), last.axis)
UpperOf == IntegrateUpper(GridCopy(last.pre).g, last.axis)

\* the number of the three regions that count point i of the axis
TimesCounted(i) ==
    LET p == AxisPos(last.axis, last.pre.dim)
        r == last.pre.ROI[p]
    IN  W(last.pre, <<NegInf, Fin(r[1])>>, last.axis)[i]
           + W(last.pre, RoiRegion(r), last.axis)[i]
           + W(last.pre, <<Fin(r[2]), PosInf>>, last.axis)[i]
AxisPoints == 1..Len(last.pre.obs[AxisPos(last.axis, last.pre.dim)])

\* the sum of the three integrals equals the marginal density, entry by entry
SumIsMarginal ==
    \A t \in Indices(dens.shape) :
        (LowerOf.dens.num[t] * MiddleOf.dens.den * UpperOf.dens.den
            + MiddleOf.dens.num[t] * LowerOf.dens.den * UpperOf.dens.den
            + UpperOf.dens.num[t] * LowerOf.dens.den * MiddleOf.dens.den) * dens.den
          = dens.num[t] * LowerOf.dens.den * MiddleOf.dens.den * UpperOf.dens.den

\* C19: for every grid and axis the integrals of integrate_lower, of integrate
\* on the ROI and of integrate_upper, each on a fresh copy, add up to the
\* density marginalize leaves, and no point of the axis (a point on a ROI
\* bound included) is counted in more than one of the three regions.
C19_RegionsPartitionTheAxis ==
    Marginalized =>
        /\ SumIsMarginal
        /\ \A i \in AxisPoints : TimesCounted(i) = 1

\* the part that holds: every point is counted once, and once more for each
\* ROI bound its coordinate equals
C19_BoundsCountedAgain ==
    Marginalized =>
        LET p == AxisPos(last.axis, last.pre.dim)
        IN  \A i \in AxisPoints :
               TimesCounted(i) = 1 + (IF last.pre.obs[p][i] = last.pre.ROI[p][1] THEN 1 ELSE 0)
                                   + (IF last.pre.obs[p][i] = last.pre.ROI[p][2] THEN 1 ELSE 0)

\* one axis whose first point is the lower bound of the ROI: the point is in
\* the lower region and in the ROI, and the three integrals exceed the marginal
C19_Witness ==
    /\ Marginalized
    /\ last.pre.dim = 1
    /\ last.pre.obs[1][1] = last.pre.ROI[1][1]
    /\ last.pre.obs[1][1] < last.pre.ROI[1][2]
    /\ TimesCounted(1) = 2
    /\ last.pre.dens.num[<<1>>] > 0
    /\ ~SumIsMarginal

----------------------------------------------------------------------------
(* Claims about the implementations of the convolution, under SpecImpl *)

Implementations == {"convolve", "convolve_numpy", "convolve_downsample"}
Implemented == last # None /\ last.op \in Implementations

\* the length of the axis before the call, and the claim's condition on the
\* half-width
AxisLength == Len(last.pre.obs[AxisPos(last.axis, last.pre.dim)])
HalfWidthFits == last.n % last.ds = 0 /\ 2 * last.n < AxisLength

\* two densities with the same values
SameDens(a, b) ==
    /\ a.shape = b.shape
    /\ \A t \in Indices(a.shape) : a.num[t] * b.den = b.num[t] * a.den

\* the implementation name, on the grid before the call, ends as the call made
\* did: the same exception, or the same coordinates, steps and density
SameAsCall(name) ==
    LET r == ConvolveBy(name, last.pre, last.axis, last.val, last.ds)
    IN  /\ r.exc = last.exc
        /\ r.exc = "" =>
              /\ r.g.obs = obs /\ r.g.step = step /\ r.g.dim = dim
              /\ r.g.ROI = ROI /\ r.g.norm = norm
              /\ SameDens(r.g.dens, dens)

\* C20: for every length L of the axis, downsample factor ds >= 1 and kernel
\* half-width n that is a multiple of ds with 2n < L, convolve, convolve_numpy
\* and convolve_downsample leave the grid in the same state: the same
\* coordinates on the axis, the same step and the same density at every point
\* kept.
C20_ImplementationsAgree ==
    (Implemented /\ HalfWidthFits) => \A name \in Implementations : SameAsCall(name)

\* the part that holds: convolve and convolve_numpy agree, and
\* convolve_downsample agrees with them when the half-width is at least 1 and
\* ds divides L - 2n
C20_AgreeWhenDivisible ==
    (Implemented /\ HalfWidthFits) =>
        /\ last.op # "convolve_downsample" =>
              SameAsCall("convolve") /\ SameAsCall("convolve_numpy")
        /\ (last.n >= 1 /\ (AxisLength - 2 * last.n) % last.ds = 0) =>
              \A name \in Implementations : SameAsCall(name)

\* five points, a kernel of half-width 2 and ds = 2: convolve_downsample keeps
\* no point where convolve keeps the middle one
C20_Witness ==
    /\ Implemented /\ HalfWidthFits
    /\ last.op = "convolve_downsample" /\ last.exc = ""
    /\ AxisLength = MaxLen /\ last.n = 2 /\ last.ds = 2 /\ dim = 1
    /\ obs[1] = <<>>
    /\ Len(Convolve(last.pre, last.axis, last.val, last.ds).g.obs[1]) = 1

\* nine points, a kernel of half-width 3 and ds = 3: the implementations agree
C20_WitnessAgree ==
    /\ Implemented /\ HalfWidthFits
    /\ last.op = "convolve_downsample" /\ last.exc = ""
    /\ AxisLength = LongLen /\ last.n = 3 /\ last.ds = 3
    /\ Len(obs[1]) = 1
    /\ \A name \in Implementations : SameAsCall(name)

----------------------------------------------------------------------------
(* Specification SpecCoarsen: one call of coarsen, pass by pass *)

\* the largest number of values of the model parameter
MaxN == 4

\* the observables at one value of the parameter: two entries
Points ==
    {<<Num(0), Num(0)>>, <<Num(1), Num(0)>>, <<Num(1), Num(3)>>, <<Num(3), NaN>>,
     <<NaN, NaN>>}
\* self.std, and the values of dmax: 1 and 3/2 (the difference of the first
\* and the third point)
Std == <<1, 2>>
Dmaxes == {<<1, 1>>, <<3, 2>>}

\* the grid before the call: n values 1 .. n of the parameter, in order, and
\* the observables at each
InitCoarsen ==
    /\ \E n \in 2..MaxN, dmax \in Dmaxes :
          \E o \in [1..n -> Points] :
             coarsen = [pc |-> "call", dmax |-> dmax,
                        self |-> [obs |-> o, var |-> [q \in 1..n |-> q]],
                        pre |-> [obs |-> o, var |-> [q \in 1..n |-> q]],
                        obs |-> <<>>, var |-> <<>>, maxdiff |-> <<>>, ind |-> <<>>,
                        i |-> 0, j |-> 0, stop |-> FALSE, merge |-> "None"]
    /\ IdleGrid /\ IdleKernel /\ IdleStar /\ IdleHeap /\ IdleCalc

CoarsenFrame ==
    UNCHANGED <<gridvars, kernvars, starvars, heapvars, likvars, llvars, corrvars>>

\* the statements before the loop
CoarsenBegin ==
    /\ coarsen # None /\ coarsen.pc = "call"
    /\ \E maxdiff \in {GetMaxdiff(coarsen.self.obs, Std)} :
          \E ind \in Argsort(maxdiff) :
             coarsen' = [coarsen EXCEPT
                            !.pc = "loop",
                            !.obs = coarsen.self.obs,
                            !.var = coarsen.self.var,
                            !.maxdiff = maxdiff,
                            !.ind = ind,
                            !.i = 0,
                            !.j = ind[1],
                            !.stop = Stops(maxdiff, ind[1], coarsen.dmax)]
    /\ CoarsenFrame

\* the pass that merges nothing: the index of indices advances
PassOn(c) ==
    LET i1 == c.i + 1
        j1 == IF i1 < Len(c.ind) THEN c.ind[i1 + 1] ELSE c.j
    IN  [c EXCEPT !.merge = "None",
                  !.i = i1,
                  !.j = j1,
                  !.stop = ~(i1 < Len(c.ind)) \/ Stops(c.maxdiff, j1, c.dmax)]

\* the pass that merges: the value at index at is deleted, the interval of
\* index keep gets the difference val, and the differences are sorted again
PassMerge(c, merge, at, keep, val, ind) ==
    LET maxdiff == RemoveAt([c.maxdiff EXCEPT ![keep + 1] = val], at + 1)
    IN  [c EXCEPT !.merge = merge,
                  !.obs = RemoveAt(c.obs, at + 1),
                  !.var = RemoveAt(c.var, at + 1),
                  !.maxdiff = maxdiff,
                  !.ind = ind,
                  !.i = 0,
                  !.j = ind[1],
                  !.stop = Stops(maxdiff, ind[1], c.dmax)]

\* one pass of the while loop
CoarsenPass ==
    /\ coarsen # None /\ coarsen.pc = "loop" /\ ~coarsen.stop
    /\ \E maxright \in {IF coarsen.j < Len(coarsen.maxdiff) - 1
                        THEN Merged(coarsen.obs, coarsen.j, Std, coarsen.dmax)
                        ELSE <<0, 0>>},
          maxleft \in {IF coarsen.j > 0
                       THEN Merged(coarsen.obs, coarsen.j - 1, Std, coarsen.dmax)
                       ELSE <<0, 0>>} :
          \E merge \in {MergeSide(maxleft, maxright)} :
             \/ /\ merge = "None"
                /\ coarsen' = PassOn(coarsen)
             \/ /\ merge = "left"
                /\ \E md \in {RemoveAt([coarsen.maxdiff EXCEPT ![coarsen.j] = maxleft],
                                       coarsen.j + 1)} :
                      \E ind \in Argsort(md) :
                         coarsen' = PassMerge(coarsen, merge, coarsen.j, coarsen.j - 1,
                                              maxleft, ind)
             \/ /\ merge = "right"
                /\ \E md \in {RemoveAt([coarsen.maxdiff EXCEPT ![coarsen.j + 1] = maxright],
                                       coarsen.j + 2)} :
                      \E ind \in Argsort(md) :
                         coarsen' = PassMerge(coarsen, merge, coarsen.j + 1, coarsen.j,
                                              maxright, ind)
    /\ CoarsenFrame

\* the statements after the loop: self.obs and the parameter list are set
CoarsenEnd ==
    /\ coarsen # None /\ coarsen.pc = "loop" /\ coarsen.stop
    /\ coarsen' = [coarsen EXCEPT !.pc = "done",
                                  !.self = [obs |-> coarsen.obs, var |-> coarsen.var]]
    /\ CoarsenFrame

NextCoarsen ==
    \/ CoarsenBegin
    \/ CoarsenPass
    \/ CoarsenEnd

\* the call runs in one thread: a statement that can run does
SpecCoarsen == InitCoarsen /\ [][NextCoarsen]_vars /\ WF_vars(NextCoarsen)

----------------------------------------------------------------------------
(* Claims about coarsen, checked under SpecCoarsen *)

Coarsening == coarsen # None
Coarsened == coarsen # None /\ coarsen.pc = "done"

\* the values kept are values of the list before the call, in their order,
\* the first and the last among them, and the observables kept are theirs
KeepsTheEnds(var, o) ==
    LET pre == coarsen.pre
    IN  /\ Len(var) >= 2 /\ Len(o) = Len(var)
        /\ var[1] = pre.var[1]
        /\ var[Len(var)] = pre.var[Len(pre.var)]
        /\ \A q \in 1..(Len(var) - 1) : var[q] < var[q + 1]
        /\ \A q \in 1..Len(var) : var[q] \in 1..Len(pre.var) /\ o[q] = pre.obs[var[q]]

\* the interval from var[q] to var[q + 1] is one of the grid before the call,
\* or its largest normalized difference of the observables is at most dmax
OriginalOrWithinDmax(var, q) ==
    LET pre == coarsen.pre
        d == NormDiff(pre.obs[var[q + 1]], pre.obs[var[q]], Std)
    IN  \/ var[q + 1] = var[q] + 1
        \/ /\ \E k \in 1..Len(d) : d[k][2] # 0
           /\ \A k \in 1..Len(d) : d[k][2] # 0 => d[k][1] * coarsen.dmax[2] <= coarsen.dmax[1] * d[k][2]

\* C21: coarsen(axis, dmax) on a grid of at least two values terminates; it
\* deletes interior values only (the first and the last value of the parameter
\* list are kept and the values kept stay in their order); every interval of
\* the grid it leaves is an interval of the grid before, or a merged one whose
\* largest normalized difference of the observables is at most dmax.
C21_CoarsenTerminatesWithinDmax ==
    /\ <>Coarsened
    /\ [](Coarsening =>
             /\ coarsen.pc = "loop" => KeepsTheEnds(coarsen.var, coarsen.obs)
             /\ KeepsTheEnds(coarsen.self.var, coarsen.self.obs)
             /\ coarsen.pc = "loop" =>
                   \A q \in 1..(Len(coarsen.var) - 1) : OriginalOrWithinDmax(coarsen.var, q)
             /\ Coarsened =>
                   \A q \in 1..(Len(coarsen.self.var) - 1) :
                      OriginalOrWithinDmax(coarsen.self.var, q))
    /\ [][Coarsening =>
             \/ coarsen'.var = coarsen.var
             \/ coarsen.pc = "call"
             \/ \E p \in 2..(Len(coarsen.var) - 1) : coarsen'.var = RemoveAt(coarsen.var, p)]_vars

\* four values become two: two merges, and the interval left is within dmax
C21_Witness ==
    /\ Coarsened
    /\ Len(coarsen.pre.var) = 4
    /\ coarsen.self.var = <<1, 4>>
    /\ coarsen.pre.obs[1] # coarsen.pre.obs[4]
    /\ OriginalOrWithinDmax(coarsen.self.var, 1)

\* a merge to the left and a merge to the right are made
C21_WitnessLeft == Coarsening /\ coarsen.pc = "loop" /\ coarsen.merge = "left"
C21_WitnessRight == Coarsening /\ coarsen.pc = "loop" /\ coarsen.merge = "right"

\* a value is kept because merging it away would exceed dmax
C21_WitnessKept ==
    /\ Coarsened
    /\ Len(coarsen.pre.var) = 3 /\ coarsen.self.var = <<1, 2, 3>>
    /\ ~IsNan(GetMaxdiff(coarsen.pre.obs, Std)[1])
    /\ ~AtLeast(GetMaxdiff(coarsen.pre.obs, Std)[1], coarsen.dmax)

====
